---- MODULE Spec2Model ----
(***************************************************************************)
(* A model of the MT5 multi-symbol trading robot: the per-cycle            *)
(* orchestration of MultiSymbolRobot (robot/multi_symbol_robot.py), the    *)
(* risk arithmetic of RiskManager (domain/risk_manager.py) and the vote of *)
(* CombinedStrategy (domain/strategies/combined_strategy.py).              *)
(*                                                                         *)
(* Units.  Lot sizes are integers counting hundredths of a lot (0.01 lot = *)
(* 1).  Money is an integer.  Prices and tick sizes are integers counting  *)
(* 0.00001 of a price unit.  Percentages and ratios that the code holds as *)
(* floats are held exactly, as fractions compared by cross-multiplication; *)
(* the rounding error of binary floating point is not modelled.            *)
(***************************************************************************)
EXTENDS Integers, Sequences, FiniteSets, TLC

VARIABLES
    pos,          \* broker: open positions, pos[symbol][side] = count
    volMetrics,   \* symbol_manager.volatility_metrics: atr_percentage in tenths of a percent, or NoMetrics
    pc,           \* MultiSymbolRobot.trade: 0 = not running, i = about to process the i-th symbol, N+1 = after the loop
    processed,    \* the symbols whose trade_symbol call has been made in the current cycle, in order
    faulted,      \* the symbols of the current cycle whose processing raised
    tradeRaised,  \* whether a call of trade() has ended by raising
    last,         \* what the last trade_symbol call saw and did
    memo,         \* what some earlier trade_symbol call saw and did
    cmb,          \* CombinedStrategy.signal: the last call's configuration, constituent outcomes and result
    sz,           \* RiskManager.calculate_position_size: the last call's inputs and result
    rk,           \* RiskManager.check_risk_limits: the last call's inputs and answer
    vs,           \* calculate_position_size under two ATR readings of one symbol: inputs and both sizes
    va,           \* startup symbol selection: the candidates, their market data and what was selected
    st,           \* SMCStrategy / TrendBreakoutStrategy: the last call's bar series and result
    sg,           \* calculate_position_size followed by check_risk_limits on the same account state
    tb,           \* TrendBreakoutStrategy.signal: the bar series, the levels it derived and the result
    mg,           \* MultiSymbolManager: symbols, data_sources, volatility_metrics and the last call
    sch,          \* main_live: the main thread, the scheduler thread, the event queue and the cycles
    cn            \* the process-wide MetaTrader5 connection and the startup objects that hold it

vars == <<pos, volMetrics, pc, processed, faulted, tradeRaised, last, memo, cmb, sz, rk, vs, va, st, sg, tb, mg, sch, cn>>

-----------------------------------------------------------------------------
(* Bounds of the model *)

\* the most positions the broker holds per symbol and side
MaxPos == 1

-----------------------------------------------------------------------------
(* Program constants *)

\* MultiSymbolRobot.__init__: stop_loss_pips = 50.0
stop_loss_pips == 50

\* MultiSymbolRobot.__init__: default_lot_size = 0.1 (in hundredths of a lot)
default_lot_size == 10

\* RiskManager.__init__: risk_per_symbol = 0.02, as a percentage
RiskPerSymbolPct == 2

\* RiskManager.__init__: max_total_risk = 0.05, as a percentage
MaxTotalRiskPct == 5

\* the keys of MultiSymbolRobot.strategies, in insertion order
StrategyKeys == <<"EURUSD", "XAUUSD">>

NSymbols == Len(StrategyKeys)

Symbols == {StrategyKeys[i] : i \in 1..NSymbols}

Sides == {"BUY", "SELL"}

Opposite(side) == IF side = "BUY" THEN "SELL" ELSE "BUY"

NoMetrics == -1

Abs(x) == IF x < 0 THEN -x ELSE x

Max2(a, b) == IF a >= b THEN a ELSE b

Min2(a, b) == IF a <= b THEN a ELSE b

-----------------------------------------------------------------------------
(* The broker's symbol metadata (mt5.symbol_info), an external input *)

SymbolInfo(sym) ==
    IF sym = "EURUSD"
    THEN [digits |-> 5, trade_tick_size |-> 1, trade_tick_value |-> 1,
          volume_min |-> 1, volume_max |-> 10000, volume_step |-> 1]
    ELSE [digits |-> 2, trade_tick_size |-> 10, trade_tick_value |-> 1,
          volume_min |-> 1, volume_max |-> 5000, volume_step |-> 1]

\* what the market-data calls of one step answer: everything, or
\* symbol_select fails, or symbol_info is None, or symbol_info_tick is None
MarketAnswers == {"ok", "no_select", "no_info", "no_tick"}

-----------------------------------------------------------------------------
(* RiskManager *)

\* Python's round(): the nearest integer to n/d (d > 0), halves to the even one
RoundHalfEven(n, d) ==
    LET q == n \div d
        r == n % d
    IN  IF 2 * r < d THEN q
        ELSE IF 2 * r > d THEN q + 1
        ELSE IF q % 2 = 0 THEN q ELSE q + 1

\* the stop-loss distance as a price difference: a pip is 10 ticks on 3- and
\* 5-digit symbols, one tick otherwise
PriceDiff(info, slPips) ==
    IF info.digits = 5 \/ info.digits = 3
    THEN slPips * info.trade_tick_size * 10
    ELSE slPips * info.trade_tick_size

\* get_volatility_multiplier(atr_percentage, base_atr = 1.0), atr in tenths of
\* a percent; the result is the fraction <<numerator, denominator>>
get_volatility_multiplier(atr) ==
    LET m == Max2(atr, 1)                    \* max(atr_percentage, 0.1)
    IN  IF 2 * 10 < m THEN <<1, 2>>          \* 10/m < 0.5
        ELSE IF 10 > 2 * m THEN <<2, 1>>     \* 10/m > 2.0
        ELSE <<10, m>>

\* a clamp that forgets the lower limit
ClampToMaxOnly(x, lo, hi) == Min2(x, hi)

\* "Clamp to valid range": max(min_lot, min(position_size, max_lot))
Clamp(x, lo, hi) == Max2(lo, Min2(x, hi))

\* the exception raised inside calculate_position_size once symbol info and
\* tick are there, if any: risk_amount / volatility_multiplier (line 100),
\* adjusted_risk / (price_diff * tick_value / tick_size) (line 122) and
\* position_size / lot_step (line 130) divide by zero
SizingFault(info, slPips, mult) ==
    IF mult[1] = 0 THEN "ZeroDivisionError"
    ELSE IF PriceDiff(info, slPips) = 0 THEN "none"
    ELSE IF info.trade_tick_value = 0 \/ info.volume_step = 0 THEN "ZeroDivisionError"
    ELSE "none"

\* an except clause that lets arithmetic errors through
CaughtUnlessArithmetic(fault) == fault # "ZeroDivisionError"

\* "except Exception as e: ... return 0.0" around the whole body
CaughtInSizing(fault) == TRUE

\* The arithmetic of calculate_position_size once symbol info and tick are
\* there: the lot size, or 0 when the price difference is zero or a
\* division by zero is caught by the except clause.
SizeFromInfo(info, slPips, riskNum, riskDen, mult) ==
    LET price_diff == PriceDiff(info, slPips)
        \* position_size / lot_step = N / D, with lot_step = volume_step / 100 lots
        N0 == riskNum * mult[2] * info.trade_tick_size * 100
        D0 == riskDen * mult[1] * price_diff * info.trade_tick_value * info.volume_step
        N  == IF D0 < 0 THEN -N0 ELSE N0
        D  == Abs(D0)
    IN  IF SizingFault(info, slPips, mult) # "none" THEN 0   \* return 0.0 of the except clause
        ELSE IF price_diff = 0 THEN 0                        \* "Invalid stop loss"
        ELSE Clamp(RoundHalfEven(N, D) * info.volume_step, info.volume_min, info.volume_max)

\* symbol_select fails, or symbol_info or symbol_info_tick is None
Unavailable(mkt) == mkt # "ok"

\* whether a call of calculate_position_size ends by raising instead of
\* returning
SizingRaises(info, mkt, slPips, mult) ==
    /\ ~ Unavailable(mkt)
    /\ SizingFault(info, slPips, mult) # "none"
    /\ ~ CaughtInSizing(SizingFault(info, slPips, mult))

\* the risk_amount argument left at its default, None
NoRiskAmount == <<>>

\* RiskManager.calculate_position_size(symbol, stop_loss_pips, risk_amount, mult);
\* risk_amount is NoRiskAmount or <<amount>>
calculate_position_size(info, mkt, slPips, risk_amount, bal, mult) ==
    IF Unavailable(mkt) THEN 0
    ELSE IF risk_amount = NoRiskAmount
    THEN SizeFromInfo(info, slPips, bal * RiskPerSymbolPct, 100, mult)
    ELSE SizeFromInfo(info, slPips, risk_amount[1], 1, mult)

\* what mt5.account_info() answers: an account with a balance, None
\* ("no_account"), or an exception ("raise")
AccountAnswer(kind, balance) == [kind |-> kind, balance |-> balance]

\* a balance query that answers a failure with an assumed balance
AssumedBalance(answer) ==
    IF answer.kind = "account" THEN answer.balance ELSE 10000

\* RiskManager.get_account_balance(): the balance, 0.0 when the query fails
get_account_balance(answer) ==
    IF answer.kind = "no_account" THEN 0
    ELSE IF answer.kind = "raise" THEN 0
    ELSE answer.balance

\* a comparison that rejects a value equal to the limit as well
ReachesOrExceeds(a, b) == a >= b

\* "position_risk_percent > (self.risk_per_symbol * 100)" and
\* "new_total_risk > (self.max_total_risk * 100)": strictly greater
Exceeds(a, b) == a > b

\* RiskManager.check_risk_limits(symbol, lots, stop_loss_pips)
check_risk_limits(info, mkt, lots, slPips, bal, prof) ==
    LET price_diff == PriceDiff(info, slPips)
        \* position_risk = num / den
        num == Abs(price_diff * info.trade_tick_value * lots)
        den == info.trade_tick_size * 100
    IN  IF bal = 0 THEN [allowed |-> FALSE, reason |-> "balance_zero"]
        ELSE IF mkt = "no_info" THEN [allowed |-> FALSE, reason |-> "no_symbol"]
        ELSE IF mkt = "no_tick" THEN [allowed |-> FALSE, reason |-> "no_tick"]
        ELSE IF info.trade_tick_size = 0 THEN [allowed |-> FALSE, reason |-> "error"]
        ELSE IF bal > 0 /\ Exceeds(num * 100, RiskPerSymbolPct * den * bal)
             THEN [allowed |-> FALSE, reason |-> "per_symbol"]
        ELSE IF bal > 0 /\ Exceeds(Abs(prof) * 100 * den + num * 100, MaxTotalRiskPct * den * bal)
             THEN [allowed |-> FALSE, reason |-> "total"]
        ELSE [allowed |-> TRUE, reason |-> "passed"]

-----------------------------------------------------------------------------
(* The broker as the order executor sees it (the Trader adapter) *)

\* a robot that remembers having opened a position of that side in its last
\* step, instead of relying on the broker's answer alone
RememberedPositions(p, sym, side) ==
    IF \E i \in 1..Len(last.calls) :
          /\ last.calls[i].op = "open_position"
          /\ last.calls[i].side = side
          /\ last.calls[i].res = "DONE"
    THEN Max2(1, p[sym][side])
    ELSE p[sym][side]

\* trader.get_opened_positions(symbol, type): the count it reports
get_opened_positions(p, sym, side) == p[sym][side]

\* a successful open_position adds one position of that side
BrokerOpen(p, sym, side) ==
    [p EXCEPT ![sym][side] = Min2(@ + 1, MaxPos)]

\* a successful close_positions closes the symbol's positions of that side
BrokerClose(p, sym, side) ==
    [p EXCEPT ![sym][side] = 0]

-----------------------------------------------------------------------------
(* MultiSymbolRobot *)

\* the outcomes of strategy.signal(): a signal, or an exception
StrategyOutcomes == {"BUY", "SELL", "NONE", "RAISE"}

\* the call of one step that raises, if the step gets to it
FaultPoints == {"none", "query_first", "open", "query_second", "close"}

\* what open_position returns: retcode DONE, another retcode, or None
OpenResults == {"DONE", "FAILED", "NO_RESULT"}

\* one call made by a step. n is the count a query reported; res is what the
\* call gave back; id is the attribute of the robot passed to identify it
Call(op, sym, side, lots, n, res, id) ==
    [op |-> op, symbol |-> sym, side |-> side, lots |-> lots, n |-> n, res |-> res, id |-> id]

\* the multiplier the robot hands to the risk manager, lines 58-64
RobotMultiplier(metrics) ==
    IF metrics # NoMetrics /\ metrics # 0 THEN get_volatility_multiplier(metrics) ELSE <<1, 1>>

\* a robot that sends on whatever size the risk manager answered
ManagerSizeAsAnswered(sym, mkt, bal, vm) ==
    calculate_position_size(SymbolInfo(sym), mkt, stop_loss_pips, NoRiskAmount, bal,
                            RobotMultiplier(vm[sym]))

\* MultiSymbolRobot.calculate_position_size(symbol)
RobotPositionSize(sym, mkt, bal, vm) ==
    LET mult == IF vm[sym] # NoMetrics /\ vm[sym] # 0
                THEN get_volatility_multiplier(vm[sym])
                ELSE <<1, 1>>
        position_size == calculate_position_size(SymbolInfo(sym), mkt, stop_loss_pips, NoRiskAmount, bal, mult)
    IN  IF position_size = 0 THEN default_lot_size ELSE position_size

\* MultiSymbolRobot.check_risk_before_trade(symbol, position_size)
check_risk_before_trade(sym, mkt, lots, bal, prof) ==
    check_risk_limits(SymbolInfo(sym), mkt, lots, stop_loss_pips, bal, prof)

\* a step that sends the order whatever the risk check said
ProceedsToOpenUnchecked(is_allowed) == TRUE

\* "if not is_allowed: return": whether the step goes on to open_position
ProceedsToOpen(is_allowed) == is_allowed

\* a step that also returns when the order came back with a non-success code
ProceedsAfterOpenOnlyDone(res) == res = "DONE"

\* "if result is None: return": whether the step goes on after open_position
ProceedsAfterOpen(res) == res # "NO_RESULT"

\* a step that opens a position although one of that side is already open
WantsNewPositionAlways(total) == total >= 0

\* "if total_buy == 0": whether a new position of the signal's side is wanted
WantsNewPosition(total) == total = 0

\* a step that leaves a single opposite position open
WantsCloseSeveral(total) == total > 1

\* "if total_sell > 0": whether the opposite side is asked to close
WantsClose(total) == total > 0

\* handlers that let an exception of the strategy through
ExceptOrderErrorsOnly(fault) == fault # "strategy"

\* "except Exception": whether an exception raised by a call is caught
ExceptException(fault) == TRUE

\* the result of one trade_symbol call: the calls made, how it ended, and
\* the broker's positions afterwards
StepResult(calls, ending, p) == [calls |-> calls, ending |-> ending, pos |-> p]

\* "Close opposite positions", lines 154-158 and 196-200
CloseOpposite(sym, side, fault, closeOk, calls, p) ==
    LET opp == Opposite(side)
        total == get_opened_positions(p, sym, opp)
        c1 == Append(calls, Call("get_opened_positions", sym, opp, 0, total, "count", ""))
        c2 == Append(c1, Call("close_positions", sym, opp, 0, 0,
                              IF fault = "close" THEN "RAISED" ELSE "returned", "name"))
    IN  IF fault = "query_second"
        THEN StepResult(Append(calls, Call("get_opened_positions", sym, opp, 0, 0, "RAISED", "")),
                        "exception", p)
        ELSE IF ~ WantsClose(total) THEN StepResult(c1, "done", p)
        ELSE IF fault = "close" THEN StepResult(c2, "exception", p)
        ELSE StepResult(c2, "done", IF closeOk THEN BrokerClose(p, sym, opp) ELSE p)

\* a handling that closes the opposite side first and opens afterwards
ClosesBeforeOpening(sym, side, fault, mkt, res, closeOk, p, bal, prof, vm) ==
    LET closed == CloseOpposite(sym, side, fault, closeOk, <<>>, p)
        total == get_opened_positions(closed.pos, sym, side)
        c1 == Append(closed.calls, Call("get_opened_positions", sym, side, 0, total, "count", ""))
        position_size == RobotPositionSize(sym, mkt, bal, vm)
        risk == check_risk_before_trade(sym, mkt, position_size, bal, prof)
        c2 == Append(c1, Call("check_risk_limits", sym, side, position_size, 0,
                              IF risk.allowed THEN "allowed" ELSE "rejected", ""))
        c3 == Append(c2, Call("open_position", sym, side, position_size, 0, res, "magic_number"))
    IN  IF closed.ending = "exception" THEN closed
        ELSE IF ~ WantsNewPosition(total) THEN StepResult(c1, "done", closed.pos)
        ELSE IF ~ ProceedsToOpen(risk.allowed) THEN StepResult(c2, "rejected", closed.pos)
        ELSE StepResult(c3, IF ProceedsAfterOpen(res) THEN "done" ELSE "no_result",
                        IF res = "DONE" THEN BrokerOpen(closed.pos, sym, side) ELSE closed.pos)

\* "Process buy signal" / "Process sell signal", lines 119-158 and 161-200
HandleSignal(sym, side, fault, mkt, res, closeOk, p, bal, prof, vm) ==
    LET total == get_opened_positions(p, sym, side)
        c1 == <<Call("get_opened_positions", sym, side, 0, total, "count", "")>>
        position_size == RobotPositionSize(sym, mkt, bal, vm)
        risk == check_risk_before_trade(sym, mkt, position_size, bal, prof)
        c2 == Append(c1, Call("check_risk_limits", sym, side, position_size, 0,
                              IF risk.allowed THEN "allowed" ELSE "rejected", ""))
        c3 == Append(c2, Call("open_position", sym, side, position_size, 0,
                              IF fault = "open" THEN "RAISED" ELSE res, "magic_number"))
    IN  IF fault = "query_first"
        THEN StepResult(<<Call("get_opened_positions", sym, side, 0, 0, "RAISED", "")>>, "exception", p)
        ELSE IF ~ WantsNewPosition(total)
        THEN CloseOpposite(sym, side, fault, closeOk, c1, p)
        ELSE IF ~ ProceedsToOpen(risk.allowed)
        THEN StepResult(c2, "rejected", p)
        ELSE IF fault = "open"
        THEN StepResult(c3, "exception", p)
        ELSE IF ~ ProceedsAfterOpen(res)
        THEN StepResult(c3, "no_result", p)
        ELSE CloseOpposite(sym, side, fault, closeOk, c3,
                           IF res = "DONE" THEN BrokerOpen(p, sym, side) ELSE p)

\* MultiSymbolRobot.trade_symbol(symbol)
trade_symbol(sym, sig, fault, mkt, res, closeOk, p, bal, prof, vm) ==
    IF sig = "RAISE" THEN StepResult(<<>>, "exception", p)
    ELSE IF sig = "NONE" THEN StepResult(<<>>, "no_signal", p)
    ELSE HandleSignal(sym, sig, fault, mkt, res, closeOk, p, bal, prof, vm)

\* the fault a step's exception came from, "none" when it ended otherwise
FaultOf(sig, fault, r) ==
    IF r.ending # "exception" THEN "none"
    ELSE IF sig = "RAISE" THEN "strategy"
    ELSE fault

\* whether a step gets as far as sizing and risk-checking a new position
ReachesSizing(sym, sig, fault, p) ==
    /\ sig \in Sides
    /\ fault # "query_first"
    /\ WantsNewPosition(get_opened_positions(p, sym, sig))

\* what a step was given: the symbol, the strategy's outcome, the positions
\* the broker held, and the answers the environment had ready for its calls
Inputs(sym, sig, fault, mkt, res, closeOk, p, bal, prof, vm) ==
    [symbol |-> sym, signal |-> sig, fault |-> fault, market |-> mkt, result |-> res,
     closeOk |-> closeOk, balance |-> bal, profit |-> prof, metrics |-> vm[sym],
     buys |-> p[sym]["BUY"], sells |-> p[sym]["SELL"]]

NoStep == [inp |-> [symbol |-> "", signal |-> "NONE", fault |-> "none", market |-> "ok",
                    result |-> "DONE", closeOk |-> TRUE, balance |-> 0, profit |-> 0,
                    metrics |-> NoMetrics, buys |-> 0, sells |-> 0],
           calls |-> <<>>, ending |-> "never"]

-----------------------------------------------------------------------------
(* The inputs the environment supplies *)

\* the balance mt5.account_info() reports to a step
Balances == {0, 10000}

\* the floating P/L of each open position when a step asks (mt5.positions_get)
ProfitsPerPosition == {0, -200}

\* get_total_exposure()['total_profit']: the sum over all open positions
TotalProfit(p, pl) ==
    pl * (p["EURUSD"]["BUY"] + p["EURUSD"]["SELL"] + p["XAUUSD"]["BUY"] + p["XAUUSD"]["SELL"])

\* the metrics update_volatility_metrics left at startup: an ATR of 4% for
\* EURUSD, none for XAUUSD
StartupMetrics == [sym \in Symbols |-> IF sym = "EURUSD" THEN 40 ELSE NoMetrics]

PosStates == [Symbols -> [Sides -> 0..MaxPos]]

-----------------------------------------------------------------------------
(* The trading cycle: MultiSymbolRobot.trade *)

IdleCmb == [require_all |-> FALSE, outcomes |-> <<>>, queried |-> 0, signals |-> <<>>,
            result |-> "NONE", called |-> FALSE]

IdleSz == [called |-> FALSE, info |-> SymbolInfo("EURUSD"), market |-> "ok", mult |-> <<1, 1>>,
           balance |-> 0, risk_amount |-> NoRiskAmount, stop_loss_pips |-> 0, result |-> 0,
           raised |-> FALSE]

IdleVs == [called |-> FALSE, info |-> SymbolInfo("EURUSD"), balance |-> 0,
           risk_amount |-> NoRiskAmount, atr_low |-> 0, atr_high |-> 0,
           size_low |-> 0, size_high |-> 0]

IdleVa == [called |-> FALSE, by |-> "", candidates |-> <<>>, max_symbols |-> 0, threshold |-> 0,
           raises |-> FALSE, mdata |-> <<>>, ranked |-> <<>>, selected |-> <<>>,
           outcome |-> ""]

IdleSt == [called |-> FALSE, by |-> "", bars |-> <<>>, period |-> 0, result |-> "NONE",
           blocks |-> [bullish |-> <<>>, bearish |-> <<>>]]

IdleRk == [called |-> FALSE, info |-> SymbolInfo("EURUSD"), market |-> "ok", lots |-> 0,
           account |-> AccountAnswer("account", 0), balance |-> 0, profit |-> 0, stop_loss_pips |-> 0,
           answer |-> [allowed |-> FALSE, reason |-> "balance_zero"]]

\* no sizing-and-gating call made yet
IdleSg == [called |-> FALSE, info |-> SymbolInfo("EURUSD"), balance |-> 0, atr |-> 0, profit |-> 0,
           size |-> 0, answer |-> [allowed |-> FALSE, reason |-> "balance_zero"]]

\* no TrendBreakoutStrategy.signal call made yet
IdleTb == [called |-> FALSE, bars |-> <<>>, lookback |-> 0, adx |-> 0, above_vwap |-> FALSE,
           reached |-> FALSE, support |-> 0, resistance |-> 0, is_breakout |-> FALSE,
           result |-> "NONE", rule |-> "window"]

\* no MultiSymbolManager constructed yet
IdleMg == [called |-> FALSE, symbols |-> <<>>, data_sources |-> {}, volatility_metrics |-> {},
           op |-> "", symbol |-> "", returned |-> FALSE]

\* main() not started
IdleSch == [main |-> "initialize", robot_instance |-> FALSE, thread |-> "none", queue |-> <<>>,
            cycles |-> 0, outcome |-> "none"]

\* no connection made yet, no startup object created
IdleCn == [connected |-> FALSE, step |-> "select", referenced |-> {}, unreferenced |-> {}]

Init ==
    /\ pos \in PosStates
    /\ volMetrics = StartupMetrics
    /\ pc = 0
    /\ processed = <<>>
    /\ faulted = {}
    /\ tradeRaised = FALSE
    /\ last = NoStep
    /\ memo = NoStep
    /\ cmb = IdleCmb
    /\ sz = IdleSz
    /\ rk = IdleRk
    /\ vs = IdleVs
    /\ va = IdleVa
    /\ st = IdleSt
    /\ sg = IdleSg
    /\ tb = IdleTb
    /\ mg = IdleMg
    /\ sch = IdleSch
    /\ cn = IdleCn

\* trade(): the log lines and exposure query before the loop. The broker's
\* positions when a cycle starts are whatever the time since the last cycle
\* (stop-outs, manual trades, other robots) has made them.
TradeBegin ==
    /\ pc = 0
    /\ pc' = 1
    /\ pos' \in PosStates
    /\ UNCHANGED <<volMetrics, processed, faulted, tradeRaised, last, memo, cmb, sz, rk, vs, va, st, sg, tb, mg, sch, cn>>

\* The inputs of a step are listed once each: an answer the step never asks
\* for is left at its default.
ReadsInputs(sym, sig, fault, mkt, res, closeOk, bal, pl, r, p) ==
    /\ fault # "none" => (sig # "RAISE" /\ r.ending = "exception")
    /\ (mkt # "ok" \/ bal # 0 \/ pl # 0) => ReachesSizing(sym, sig, fault, p)
    /\ res # "DONE" => \E i \in 1..Len(r.calls) :
                          r.calls[i].op = "open_position" /\ r.calls[i].res = res
    /\ ~ closeOk => \E i \in 1..Len(r.calls) :
                          r.calls[i].op = "close_positions" /\ r.calls[i].res = "returned"

\* one iteration of "for symbol in self.strategies.keys()": trade_symbol
\* inside the loop's own try/except, on the given inputs
Iteration(sig, fault, mkt, res, closeOk, bal, pl, once) ==
    \E r \in {trade_symbol(StrategyKeys[pc], sig, fault, mkt, res, closeOk, pos, bal,
                            TotalProfit(pos, pl), volMetrics)} :
      LET sym == StrategyKeys[pc]
          escapes == r.ending = "exception" /\ ~ ExceptException(FaultOf(sig, fault, r))
      IN  /\ once => ReadsInputs(sym, sig, fault, mkt, res, closeOk, bal, pl, r, pos)
          /\ pos' = r.pos
          /\ last' = [inp |-> Inputs(sym, sig, fault, mkt, res, closeOk, pos, bal,
                                     TotalProfit(pos, pl), volMetrics),
                      calls |-> r.calls, ending |-> r.ending]
          /\ processed' = Append(processed, sym)
          /\ faulted' = IF r.ending = "exception" THEN faulted \cup {sym} ELSE faulted
          /\ tradeRaised' = (tradeRaised \/ escapes)
          /\ pc' = IF escapes THEN 0 ELSE pc + 1

TradeSymbol ==
    /\ pc \in 1..NSymbols
    /\ \E sig \in StrategyOutcomes :
       \E fault \in (IF sig \in Sides THEN FaultPoints ELSE {"none"}) :
       \E mkt \in (IF ReachesSizing(StrategyKeys[pc], sig, fault, pos) THEN MarketAnswers ELSE {"ok"}),
          bal \in (IF ReachesSizing(StrategyKeys[pc], sig, fault, pos) THEN Balances ELSE {0}),
          pl \in (IF ReachesSizing(StrategyKeys[pc], sig, fault, pos) THEN ProfitsPerPosition ELSE {0}),
          res \in (IF ReachesSizing(StrategyKeys[pc], sig, fault, pos) THEN OpenResults ELSE {"DONE"}),
          closeOk \in (IF sig \in Sides THEN BOOLEAN ELSE {TRUE}) :
         Iteration(sig, fault, mkt, res, closeOk, bal, pl, TRUE)
    /\ UNCHANGED <<volMetrics, memo, cmb, sz, rk, vs, va, st, sg, tb, mg, sch, cn>>

\* trade(): the log lines after the loop; the cycle's bookkeeping ends with it
TradeEnd ==
    /\ pc = NSymbols + 1
    /\ pc' = 0
    /\ processed' = <<>>
    /\ faulted' = {}
    /\ UNCHANGED <<pos, volMetrics, tradeRaised, last, memo, cmb, sz, rk, vs, va, st, sg, tb, mg, sch, cn>>

\* a robot started on an account without positions
InitFlat ==
    /\ Init
    /\ \A sym \in Symbols, side \in Sides : pos[sym][side] = 0

\* the start of a cycle before which nobody but the robot has traded
TradeBeginUndisturbed ==
    /\ pc = 0
    /\ pc' = 1
    /\ UNCHANGED <<pos, volMetrics, processed, faulted, tradeRaised, last, memo, cmb, sz, rk, vs, va, st, sg, tb, mg, sch, cn>>

\* the same iteration, with a step of some earlier iteration kept for
\* comparison; no call raises and the account has a balance
TradeSymbolRemembering ==
    /\ pc \in 1..NSymbols
    /\ \E sig \in Sides \cup {"NONE"}, mkt \in {"ok", "no_select"}, res \in OpenResults,
          bal \in Balances \ {0}, pl \in ProfitsPerPosition :
         Iteration(sig, "none", mkt, res, TRUE, bal, pl, TRUE)
    /\ memo' \in {memo, last}
    /\ UNCHANGED <<volMetrics, cmb, sz, rk, vs, va, st, sg, tb, mg, sch, cn>>

Next ==
    \/ TradeBegin
    \/ TradeSymbol
    \/ TradeEnd

Spec == Init /\ [][Next]_vars

NextHistory ==
    \/ TradeBeginUndisturbed
    \/ TradeSymbolRemembering
    \/ TradeEnd

\* the cycles of the robot, with one earlier step remembered
SpecHistory == InitFlat /\ [][NextHistory]_vars

-----------------------------------------------------------------------------
(* CombinedStrategy *)

\* the constituents a CombinedStrategy can hold: crossover, smc, trend_breakout
NumConstituents == 3

\* a loop that gives up at the first constituent that raises
StopsAtRaise(outcome) == outcome # "RAISE"

\* "except Exception: continue": the loop goes on to the next constituent
\* whatever the current one did
GoesOnAfter(outcome) == TRUE

\* the loop over self.strategies.items(), from constituent i on: the signals
\* collected and the number of constituents queried
RECURSIVE QueryFrom(_, _, _, _)
QueryFrom(outcomes, i, signals, queried) ==
    IF i > Len(outcomes) THEN [signals |-> signals, queried |-> queried]
    ELSE IF ~ GoesOnAfter(outcomes[i]) THEN [signals |-> signals, queried |-> queried + 1]
    ELSE QueryFrom(outcomes, i + 1,
                   IF outcomes[i] = "RAISE" THEN signals ELSE Append(signals, outcomes[i]),
                   queried + 1)

\* sum(1 for s in signals if s == which)
CountOf(signals, which) == Cardinality({i \in 1..Len(signals) : signals[i] = which})

\* majority_threshold = (total_strategies + 1) // 2
MajorityThreshold(n) == (n + 1) \div 2

\* a unanimity test that settles for a majority
AgreeByMajority(count, n) == count >= MajorityThreshold(n)

\* "buy_count == len(signals)"
AllAgree(count, n) == count = n

\* "Determine final signal", for a non-empty list of signals
Vote(signals, require_all) ==
    LET buy_count == CountOf(signals, "BUY")
        sell_count == CountOf(signals, "SELL")
        n == Len(signals)
    IN  IF require_all
        THEN IF AllAgree(buy_count, n) THEN "BUY"
             ELSE IF AllAgree(sell_count, n) THEN "SELL"
             ELSE "NONE"
        ELSE IF buy_count >= MajorityThreshold(n) THEN "BUY"
             ELSE IF sell_count >= MajorityThreshold(n) THEN "SELL"
             ELSE "NONE"

\* CombinedStrategy.signal(), given what each configured constituent does
CombinedSignal(outcomes, require_all) ==
    LET q == QueryFrom(outcomes, 1, <<>>, 0)
    IN  IF Len(outcomes) = 0
        THEN [result |-> "NONE", signals |-> <<>>, queried |-> 0]
        ELSE IF Len(q.signals) = 0
        THEN [result |-> "NONE", signals |-> q.signals, queried |-> q.queried]
        ELSE [result |-> Vote(q.signals, require_all), signals |-> q.signals,
              queried |-> q.queried]

\* one call of CombinedStrategy.signal()
CombinedCall ==
    /\ \E n \in 0..NumConstituents, require_all \in BOOLEAN :
       \E outcomes \in [1..n -> StrategyOutcomes] :
       \E r \in {CombinedSignal(outcomes, require_all)} :
          cmb' = [require_all |-> require_all, outcomes |-> outcomes, queried |-> r.queried,
                  signals |-> r.signals, result |-> r.result, called |-> TRUE]
    /\ UNCHANGED <<pos, volMetrics, pc, processed, faulted, tradeRaised, last, memo, sz, rk, vs, va, st, sg, tb, mg, sch, cn>>

NextCombined == CombinedCall

\* calls of CombinedStrategy.signal() on every configuration and outcome
SpecCombined == InitFlat /\ [][NextCombined]_vars

-----------------------------------------------------------------------------
(* RiskManager.calculate_position_size on its own *)

\* symbol metadata the broker may report
SizingInfos ==
    [digits : {2, 5}, trade_tick_size : {1}, trade_tick_value : {0, 1, 10},
     volume_min : {1, 3, 10}, volume_max : {10, 1000}, volume_step : {1, 2, 10}]

\* volatility multipliers: the two ends of get_volatility_multiplier's range,
\* 1.0 and 10/7
SizingMultipliers == {<<1, 2>>, <<1, 1>>, <<10, 7>>, <<2, 1>>}

SizingBalances == {-1000, 0, 1000, 10000}

SizingRiskAmounts == {NoRiskAmount, <<0>>, <<100>>}

SizingStopLosses == {0, stop_loss_pips}

\* one call of RiskManager.calculate_position_size, on any input
SizeCall ==
    /\ ~ sz.called
    /\ \E info \in SizingInfos, mkt \in MarketAnswers, mult \in SizingMultipliers,
          bal \in SizingBalances, risk_amount \in SizingRiskAmounts, sl \in SizingStopLosses :
          sz' = [called |-> TRUE, info |-> info, market |-> mkt, mult |-> mult,
                 balance |-> bal, risk_amount |-> risk_amount, stop_loss_pips |-> sl,
                 result |-> calculate_position_size(info, mkt, sl, risk_amount, bal, mult),
                 raised |-> SizingRaises(info, mkt, sl, mult)]
    /\ UNCHANGED <<pos, volMetrics, pc, processed, faulted, tradeRaised, last, memo, cmb, rk, vs, va, st, sg, tb, mg, sch, cn>>

NextSizing == SizeCall

\* calls of RiskManager.calculate_position_size on every input
SpecSizing == InitFlat /\ [][NextSizing]_vars

-----------------------------------------------------------------------------
(* calculate_position_size under two ATR readings of the same symbol *)

\* symbol metadata for the comparison
VolatilityInfos ==
    [digits : {2, 5}, trade_tick_size : {1}, trade_tick_value : {1, 10},
     volume_min : {1}, volume_max : {10000}, volume_step : {1, 10}]

\* atr_percentage readings, in tenths of a percent
AtrReadings == {0, 1, 5, 7, 10, 20, 40}

VolatilityBalances == {1000, 10000}

VolatilityRiskAmounts == {NoRiskAmount, <<100>>}

\* the lot size for one ATR reading: get_volatility_multiplier, then
\* calculate_position_size with that multiplier
SizeUnderAtr(info, risk_amount, bal, atr) ==
    calculate_position_size(info, "ok", stop_loss_pips, risk_amount, bal,
                            get_volatility_multiplier(atr))

\* two sizings of one symbol that differ only in the ATR reading
SizeTwice ==
    /\ ~ vs.called
    /\ \E info \in VolatilityInfos, bal \in VolatilityBalances,
          risk_amount \in VolatilityRiskAmounts, a1 \in AtrReadings :
       \E a2 \in {a \in AtrReadings : a1 <= a} :
          vs' = [called |-> TRUE, info |-> info, balance |-> bal, risk_amount |-> risk_amount,
                 atr_low |-> a1, atr_high |-> a2,
                 size_low |-> SizeUnderAtr(info, risk_amount, bal, a1),
                 size_high |-> SizeUnderAtr(info, risk_amount, bal, a2)]
    /\ UNCHANGED <<pos, volMetrics, pc, processed, faulted, tradeRaised, last, memo, cmb, sz,
                   rk, va, st, sg, tb, mg, sch, cn>>

NextVolatility == SizeTwice

\* pairs of sizings under every pair of ATR readings
SpecVolatility == InitFlat /\ [][NextVolatility]_vars

-----------------------------------------------------------------------------
(* calculate_position_size followed by check_risk_limits, as the robot pairs them *)

GatingBalances == {500, 1000, 10000}

\* the floating P/L of the open positions when the size is checked
GatingProfits == {0, -200}

\* the size for the default risk amount under the multiplier of an ATR
\* reading, and the risk check of that size on the same symbol, stop loss
\* and account
SizeThenCheck ==
    /\ ~ sg.called
    /\ \E info \in VolatilityInfos, bal \in GatingBalances, atr \in AtrReadings,
          prof \in GatingProfits :
       \E size \in {SizeUnderAtr(info, NoRiskAmount, bal, atr)} :
          sg' = [called |-> TRUE, info |-> info, balance |-> bal, atr |-> atr, profit |-> prof,
                 size |-> size,
                 answer |-> check_risk_limits(info, "ok", size, stop_loss_pips, bal, prof)]
    /\ UNCHANGED <<pos, volMetrics, pc, processed, faulted, tradeRaised, last, memo, cmb, sz,
                   rk, vs, va, st, tb, mg, sch, cn>>

NextGating == SizeThenCheck

\* every sizing followed by its risk check
SpecGating == InitFlat /\ [][NextGating]_vars

-----------------------------------------------------------------------------
(* RiskManager.check_risk_limits on its own *)

\* symbol metadata the broker may report to the risk check
RiskInfos ==
    [digits : {2, 5}, trade_tick_size : {1}, trade_tick_value : {1, 10},
     volume_min : {1}, volume_max : {1000}, volume_step : {1}]

\* what the market-data calls of check_risk_limits answer
RiskMarketAnswers == {"ok", "no_info", "no_tick"}

\* proposed lot sizes, in hundredths of a lot
RiskLots == {0, 10, 40, 41, 100}

\* what mt5.account_info() answers
RiskBalances == {0, -1000, 1000, 10000}

AccountAnswers ==
    {AccountAnswer("no_account", 0), AccountAnswer("raise", 0)}
        \cup {AccountAnswer("account", b) : b \in RiskBalances}

\* the sum of the floating P/L of all open positions
RiskProfits == {0, -300, -301, 300, 1000}

RiskStopLosses == {0, stop_loss_pips}

\* one call of RiskManager.check_risk_limits, on any input
RiskCall ==
    /\ ~ rk.called
    /\ \E info \in RiskInfos, mkt \in RiskMarketAnswers, lots \in RiskLots,
          acct \in AccountAnswers, prof \in RiskProfits, sl \in RiskStopLosses :
       \E bal \in {get_account_balance(acct)} :
          rk' = [called |-> TRUE, info |-> info, market |-> mkt, lots |-> lots,
                 account |-> acct, balance |-> bal, profit |-> prof, stop_loss_pips |-> sl,
                 answer |-> check_risk_limits(info, mkt, lots, sl, bal, prof)]
    /\ UNCHANGED <<pos, volMetrics, pc, processed, faulted, tradeRaised, last, memo, cmb, sz,
                   vs, va, st, sg, tb, mg, sch, cn>>

NextRisk == RiskCall

\* calls of RiskManager.check_risk_limits on every input
SpecRisk == InitFlat /\ [][NextRisk]_vars

-----------------------------------------------------------------------------
(* VolatilityAnalyzer and the symbol selection at startup *)

\* VolatilityAnalyzer.__init__ defaults
atr_period == 14

lookback_period == 20

\* the symbols the configuration may name as candidates
CandidateSymbols == {"EURUSD", "XAUUSD", "BTCUSD"}

\* what the broker has for a symbol when its metrics are computed:
\* "unavailable" (symbol_select fails), "raise" (a call raises), or "rates"
\* with the number of bars copy_rates_from_pos returns and the combined score
\* (in tenths) that the bars give
MarketData(kind, bars, score) == [kind |-> kind, bars |-> bars, score |-> score]

MarketDataAnswers ==
    {MarketData("unavailable", 0, 0), MarketData("raise", 0, 0), MarketData("rates", 0, 0),
     MarketData("rates", atr_period + lookback_period - 1, 9),
     MarketData("rates", atr_period + lookback_period, 5),
     MarketData("rates", 1000, 9), MarketData("rates", 1000, 5), MarketData("rates", 1000, 0)}

\* a test that is content with any bars at all
HasSomeBars(n) == n > 0

\* the negation of "len(df) < self.atr_period + self.lookback_period"
HasEnoughBars(n) == ~ (n < atr_period + lookback_period)

\* VolatilityAnalyzer.calculate_volatility_metrics(symbol): <<>> for None,
\* <<metrics>> for the dictionary
calculate_volatility_metrics(symbol, d) ==
    IF d.kind = "unavailable" THEN <<>>
    ELSE IF d.kind = "raise" THEN <<>>              \* except Exception: return None
    ELSE IF d.bars = 0 THEN <<>>
    ELSE IF ~ HasEnoughBars(d.bars) THEN <<>>
    ELSE <<[symbol |-> symbol, score |-> d.score]>>

\* "for symbol in symbols: ... if metrics: results.append(metrics)"
RECURSIVE CollectMetrics(_, _, _, _)
CollectMetrics(symbols, i, mdata, results) ==
    IF i > Len(symbols) THEN results
    ELSE CollectMetrics(symbols, i + 1, mdata,
                        results \o calculate_volatility_metrics(symbols[i], mdata[symbols[i]]))

\* one step of a stable descending sort: m goes behind every entry whose
\* score is at least its own
InsertByScore(sorted, m) ==
    LET k == Cardinality({j \in 1..Len(sorted) : sorted[j].score >= m.score})
    IN  SubSeq(sorted, 1, k) \o <<m>> \o SubSeq(sorted, k + 1, Len(sorted))

\* results.sort(key=lambda x: x['score'], reverse=True): stable, so entries
\* of equal score keep their order
RECURSIVE SortByScore(_, _, _)
SortByScore(results, i, sorted) ==
    IF i > Len(results) THEN sorted
    ELSE SortByScore(results, i + 1, InsertByScore(sorted, results[i]))

\* VolatilityAnalyzer.rank_symbols_by_volatility(symbols)
rank_symbols_by_volatility(symbols, mdata) ==
    SortByScore(CollectMetrics(symbols, 1, mdata, <<>>), 1, <<>>)

\* a slice that keeps one element more
SliceThrough(seq, n) == SubSeq(seq, 1, Min2(Max2(n, 0) + 1, Len(seq)))

\* Python's seq[:n]: the first n elements, or all but the last -n when n < 0
SliceTo(seq, n) ==
    IF n >= 0 THEN SubSeq(seq, 1, Min2(n, Len(seq)))
    ELSE SubSeq(seq, 1, Max2(Len(seq) + n, 0))

SymbolsOf(ranked) == [j \in 1..Len(ranked) |-> ranked[j].symbol]

\* VolatilityAnalyzer.select_top_volatile_symbols(symbols, max_symbols, threshold)
select_top_volatile_symbols(symbols, max_symbols, min_volatility_threshold, mdata) ==
    LET ranked == rank_symbols_by_volatility(symbols, mdata)
        filtered == SymbolsOf(SelectSeq(ranked, LAMBDA r : r.score >= min_volatility_threshold))
    IN  SliceTo(filtered, max_symbols)

\* main_live.select_volatile_symbols(candidates, max_symbols): the selection,
\* or the first candidates when constructing the analyzer, loading the
\* configuration or the selection raises
select_volatile_symbols(candidates, max_symbols, min_threshold, raises, mdata) ==
    IF raises THEN SliceTo(candidates, max_symbols)
    ELSE select_top_volatile_symbols(candidates, max_symbols, min_threshold, mdata)

\* main_live.initialize_trading_system(), up to the symbols it goes on with
initialize_trading_system(candidates, max_symbols, min_threshold, raises, mdata) ==
    IF Len(candidates) = 0
    THEN [outcome |-> "ValueError: No symbols configured", symbols |-> <<>>]
    ELSE LET selected_symbols ==
                 select_volatile_symbols(candidates, max_symbols, min_threshold, raises, mdata)
         IN  IF Len(selected_symbols) = 0
             THEN [outcome |-> "ValueError: Failed to select symbols", symbols |-> <<>>]
             ELSE [outcome |-> "initialized", symbols |-> selected_symbols]

\* bound: the longest candidate list
MaxCandidates == 3

\* candidate lists as a caller may pass them, repeats included
CandidateLists == UNION {[1..n -> CandidateSymbols] : n \in 0..MaxCandidates}

\* get_symbol_candidates(config): list(set(candidates)), the distinct symbols
\* of the configuration in the order the set iterates them
ConfiguredCandidates ==
    {c \in CandidateLists : \A i, j \in 1..Len(c) : c[i] = c[j] => i = j}

\* max_symbols as passed or as read from MAX_SYMBOLS
MaxSymbolsSettings == {-1, 0, 1, 2, 3}

\* min_volatility_threshold in tenths: the default of select_top_volatile_symbols
\* (0.0) and the default of main_live (0.5)
Thresholds == {0, 5}

\* the market data of a run: an answer for every symbol that is asked about;
\* the symbols nobody asks about are left unavailable
MarketDataFor(candidates) ==
    LET asked == {candidates[i] : i \in 1..Len(candidates)}
    IN  {[s \in CandidateSymbols |->
             IF s \in asked THEN m[s] ELSE MarketData("unavailable", 0, 0)] :
         m \in [asked -> MarketDataAnswers]}

\* one call of VolatilityAnalyzer.select_top_volatile_symbols, on any input
SelectCall ==
    /\ ~ va.called
    /\ \E candidates \in CandidateLists, max_symbols \in MaxSymbolsSettings,
          threshold \in Thresholds :
       \E mdata \in MarketDataFor(candidates) :
          va' = [called |-> TRUE, by |-> "select_top_volatile_symbols",
                 candidates |-> candidates, max_symbols |-> max_symbols,
                 threshold |-> threshold, raises |-> FALSE, mdata |-> mdata,
                 ranked |-> rank_symbols_by_volatility(candidates, mdata),
                 selected |-> select_top_volatile_symbols(candidates, max_symbols, threshold, mdata),
                 outcome |-> "returned"]
    /\ UNCHANGED <<pos, volMetrics, pc, processed, faulted, tradeRaised, last, memo, cmb, sz,
                   rk, vs, st, sg, tb, mg, sch, cn>>

NextSelection == SelectCall

\* calls of select_top_volatile_symbols on every candidate list
SpecSelection == InitFlat /\ [][NextSelection]_vars

\* one run of initialize_trading_system, up to the symbols it goes on with
Startup ==
    /\ ~ va.called
    /\ \E candidates \in ConfiguredCandidates, max_symbols \in MaxSymbolsSettings,
          threshold \in Thresholds, raises \in BOOLEAN :
       \E mdata \in MarketDataFor(candidates) :
       \E r \in {initialize_trading_system(candidates, max_symbols, threshold, raises, mdata)} :
          va' = [called |-> TRUE, by |-> "initialize_trading_system",
                 candidates |-> candidates, max_symbols |-> max_symbols,
                 threshold |-> threshold, raises |-> raises, mdata |-> mdata,
                 ranked |-> rank_symbols_by_volatility(candidates, mdata),
                 selected |-> r.symbols,
                 outcome |-> r.outcome]
    /\ UNCHANGED <<pos, volMetrics, pc, processed, faulted, tradeRaised, last, memo, cmb, sz,
                   rk, vs, st, sg, tb, mg, sch, cn>>

NextStartup == Startup

\* runs of initialize_trading_system on every configuration and market
SpecStartup == InitFlat /\ [][NextStartup]_vars

-----------------------------------------------------------------------------
(* SMCStrategy and TrendBreakoutStrategy *)

\* one bar of the series self.data.get_data() returns, prices in points
Bar(o, h, l, c) == [open |-> o, high |-> h, low |-> l, close |-> c]

\* a consolidation test that accepts any smaller range
IsSmallerRange(next_candle_range, candle_range) == next_candle_range < candle_range

\* "next_candle_range < 0.5 * candle_range"
IsConsolidation(next_candle_range, candle_range) == 2 * next_candle_range < candle_range

\* "body_size > 0.6 * candle_range and candle_range > 0"
IsStrongCandle(bar) ==
    LET body_size == Abs(bar.close - bar.open)
        candle_range == bar.high - bar.low
    IN  10 * body_size > 6 * candle_range /\ candle_range > 0

\* whether the loop of identify_order_blocks marks the bar at position k
\* (df.iloc[k - 1]) as a block of the given direction
MarksBlock(df, k, order_block_periods, bullish) ==
    /\ k - 1 >= order_block_periods             \* range(self.order_block_periods, len(df))
    /\ k - 1 < Len(df)
    /\ IF bullish THEN df[k].close > df[k].open ELSE df[k].close < df[k].open
    /\ IsStrongCandle(df[k])
    /\ k - 1 < Len(df) - 1                      \* "if i < len(df) - 1"
    /\ IsConsolidation(df[k + 1].high - df[k + 1].low, df[k].high - df[k].low)

\* SMCStrategy.identify_order_blocks(df): the two boolean series
identify_order_blocks(df, order_block_periods) ==
    [bullish |-> [k \in 1..Len(df) |-> MarksBlock(df, k, order_block_periods, TRUE)],
     bearish |-> [k \in 1..Len(df) |-> MarksBlock(df, k, order_block_periods, FALSE)]]

\* the signals of one strategy
Signals == {"BUY", "SELL", "NONE"}

\* a history test that asks for the period only
HasPeriodBars(n, period) == n >= period

\* the negation of "len(df) < self.order_block_periods + 5" and of
\* "len(df) < self.lookback_period + 5"
HasMinimumWindow(n, period) == ~ (n < period + 5)

\* SMCStrategy.signal(): NONE on a series shorter than the minimum window,
\* else what the blocks, gaps, structure and averages of the series give
SMCSignal(df, order_block_periods, computed) ==
    IF ~ HasMinimumWindow(Len(df), order_block_periods) THEN "NONE"
    ELSE computed

\* TrendBreakoutStrategy.signal(): NONE on a series shorter than the minimum
\* window, else what the levels, breakout and trend strength of the series give
TrendBreakoutSignal(df, lookback, computed) ==
    IF ~ HasMinimumWindow(Len(df), lookback) THEN "NONE"
    ELSE computed

\* bound: the longest bar series given to signal()
MaxBars == 7

\* the period settings tried (order_block_periods, lookback_period)
Periods == {1, 2}

\* the bars of the series given to signal()
SignalBars == {Bar(10, 100, 0, 91), Bar(91, 100, 0, 10)}

\* the candles of the series given to identify_order_blocks: a bullish and a
\* bearish candle of body 81 in a range of 100, a bullish candle whose body
\* is exactly 60% of its range, candles of range 40, 50 and 90, and a candle
\* without range
BlockBars ==
    {Bar(10, 100, 0, 91), Bar(91, 100, 0, 10), Bar(20, 100, 0, 80), Bar(10, 40, 0, 30),
     Bar(10, 50, 0, 40), Bar(10, 90, 0, 80), Bar(50, 50, 50, 50)}

\* bound: the longest bar series given to identify_order_blocks
MaxBlockBars == 4

NoBlocks == [bullish |-> <<>>, bearish |-> <<>>]

\* one call of SMCStrategy.signal() or TrendBreakoutStrategy.signal()
SignalCall ==
    /\ ~ st.called
    /\ \E n \in 0..MaxBars, period \in Periods, strategy \in {"smc", "trend_breakout"} :
       \E df \in [1..n -> SignalBars] :
       \E computed \in (IF HasMinimumWindow(n, period) THEN Signals ELSE {"NONE"}) :
          st' = [called |-> TRUE, by |-> strategy, bars |-> df, period |-> period,
                 result |-> IF strategy = "smc" THEN SMCSignal(df, period, computed)
                            ELSE TrendBreakoutSignal(df, period, computed),
                 blocks |-> NoBlocks]
    /\ UNCHANGED <<pos, volMetrics, pc, processed, faulted, tradeRaised, last, memo, cmb, sz,
                   rk, vs, va, sg, tb, mg, sch, cn>>

NextSignal == SignalCall

\* calls of the two strategies' signal() on bar series around the minimum window
SpecSignal == InitFlat /\ [][NextSignal]_vars

-----------------------------------------------------------------------------
(* main_live: startup, the initial cycle, the scheduler thread, the connection *)

\* bound: the cycles counted
MaxCycles == 3

\* bound: TRADING_INTERVAL_MINUTES * 60, in ticks of the model's clock
TradingInterval == 2

\* a main() that starts the scheduler before it runs the initial cycle
MainNextSchedulerFirst(at) ==
    IF at = "initialize" THEN "start_scheduler"
    ELSE IF at = "start_scheduler" THEN "initial_cycle"
    ELSE "sleeping"

\* main(): the statement after the given one: initialize_trading_system,
\* run_trading_cycle, start_scheduler, then the sleep loop
MainNext(at) ==
    IF at = "initialize" THEN "initial_cycle"
    ELSE IF at = "initial_cycle" THEN "start_scheduler"
    ELSE "sleeping"

\* what can go wrong inside a cycle: nothing, robot_instance.trade() raises,
\* robot_instance.get_status() (or the status log line) raises
CycleFaults == {"none", "trade", "get_status"}

\* a handler that catches what trade() raises only
CycleCaughtInTradeOnly(fault) == fault # "get_status"

\* run_trading_cycle: "except Exception as e: logger.exception(...)"
CycleCaught(fault) == TRUE

\* run_trading_cycle(): how the cycle ends
run_trading_cycle(robot_instance, fault) ==
    IF ~ robot_instance THEN "not_initialized"
    ELSE IF fault = "none" THEN "completed"
    ELSE IF CycleCaught(fault) THEN "failed"
    ELSE "raised"

\* the constructors' mt5.initialize() and mt5.login(): the connection is open
\* and the new object is referenced
Construct(c, object) ==
    [c EXCEPT !.connected = TRUE, !.referenced = @ \cup {object}]

\* the last reference to an object goes away
Drop(c, object) ==
    [c EXCEPT !.referenced = @ \ {object}, !.unreferenced = @ \cup {object}]

\* select_volatile_symbols(): a local VolatilityAnalyzer is created, asked
\* and left behind at the return
SelectSymbols ==
    /\ sch.main = "initialize"
    /\ cn.step = "select"
    /\ cn' = [Drop(Construct(cn, "selection_analyzer"), "selection_analyzer")
                EXCEPT !.step = "symbol_manager"]
    /\ UNCHANGED <<pos, volMetrics, pc, processed, faulted, tradeRaised, last, memo, cmb, sz,
                   rk, vs, va, st, sg, tb, mg, sch>>

\* initialize_trading_system(): MultiSymbolManager(...); the robot keeps it.
\* A failed mt5.initialize() or mt5.login() raises and main() re-raises.
CreateManager ==
    /\ sch.main = "initialize"
    /\ cn.step = "symbol_manager"
    /\ \E ok \in BOOLEAN :
          IF ok
          THEN /\ cn' = [Construct(cn, "symbol_manager") EXCEPT !.step = "metrics_analyzer"]
               /\ sch' = sch
          ELSE /\ cn' = [Drop(cn, "symbol_manager") EXCEPT !.step = "failed"]
               /\ sch' = [sch EXCEPT !.main = "failed"]
    /\ UNCHANGED <<pos, volMetrics, pc, processed, faulted, tradeRaised, last, memo, cmb, sz,
                   rk, vs, va, st, sg, tb, mg>>

\* initialize_trading_system(): analyzer = VolatilityAnalyzer(...) and
\* symbol_manager.update_volatility_metrics(analyzer)
CreateMetricsAnalyzer ==
    /\ sch.main = "initialize"
    /\ cn.step = "metrics_analyzer"
    /\ cn' = [Construct(cn, "metrics_analyzer") EXCEPT !.step = "return"]
    /\ UNCHANGED <<pos, volMetrics, pc, processed, faulted, tradeRaised, last, memo, cmb, sz,
                   rk, vs, va, st, sg, tb, mg, sch>>

\* initialize_trading_system() returns the robot: its local analyzer is left
\* behind, the manager stays referenced by the robot; main() stores the
\* robot in robot_instance
ReturnRobot ==
    /\ sch.main = "initialize"
    /\ cn.step = "return"
    /\ cn' = [Drop(cn, "metrics_analyzer") EXCEPT !.step = "done"]
    /\ sch' = [sch EXCEPT !.main = MainNext("initialize"), !.robot_instance = TRUE]
    /\ UNCHANGED <<pos, volMetrics, pc, processed, faulted, tradeRaised, last, memo, cmb, sz,
                   rk, vs, va, st, sg, tb, mg>>

\* VolatilityAnalyzer.__del__ / MultiSymbolManager.__del__ of an object no
\* longer referenced: mt5.shutdown(). When the interpreter runs it is up to
\* its memory management: at once, or at any later moment.
Finalize ==
    /\ \E object \in cn.unreferenced :
          cn' = [cn EXCEPT !.connected = FALSE, !.unreferenced = @ \ {object}]
    /\ UNCHANGED <<pos, volMetrics, pc, processed, faulted, tradeRaised, last, memo, cmb, sz,
                   rk, vs, va, st, sg, tb, mg, sch>>

\* main(): run_trading_cycle() on the main thread begins
MainCycleBegin ==
    /\ sch.main = "initial_cycle"
    /\ sch' = [sch EXCEPT !.main = "in_cycle"]
    /\ UNCHANGED <<pos, volMetrics, pc, processed, faulted, tradeRaised, last, memo, cmb, sz,
                   rk, vs, va, st, sg, tb, mg, cn>>

\* the cycle counter, which stops counting at the bound
CountCycle(n) == Min2(n + 1, MaxCycles)

\* main(): run_trading_cycle() on the main thread ends; an exception that
\* run_trading_cycle lets through ends main()
MainCycleEnd ==
    /\ sch.main = "in_cycle"
    /\ \E fault \in CycleFaults :
       \E outcome \in {run_trading_cycle(sch.robot_instance, fault)} :
          sch' = [sch EXCEPT !.main = IF outcome = "raised" THEN "failed"
                                      ELSE MainNext("initial_cycle"),
                             !.cycles = CountCycle(@), !.outcome = outcome]
    /\ UNCHANGED <<pos, volMetrics, pc, processed, faulted, tradeRaised, last, memo, cmb, sz,
                   rk, vs, va, st, sg, tb, mg, cn>>

\* start_scheduler(): scheduler.enter(0, 1, schedule_trading) and the start
\* of the daemon thread running scheduler.run
StartScheduler ==
    /\ sch.main = "start_scheduler"
    /\ sch' = [sch EXCEPT !.main = MainNext("start_scheduler"), !.thread = "waiting",
                          !.queue = Append(@, 0)]
    /\ UNCHANGED <<pos, volMetrics, pc, processed, faulted, tradeRaised, last, memo, cmb, sz,
                   rk, vs, va, st, sg, tb, mg, cn>>

\* time passes while scheduler.run waits for the next event to fall due
Tick ==
    /\ sch.thread = "waiting"
    /\ sch.queue # <<>>
    /\ sch.queue[1] > 0
    /\ sch' = [sch EXCEPT !.queue = [i \in 1..Len(@) |-> Max2(@[i] - 1, 0)]]
    /\ UNCHANGED <<pos, volMetrics, pc, processed, faulted, tradeRaised, last, memo, cmb, sz,
                   rk, vs, va, st, sg, tb, mg, cn>>

\* scheduler.run takes the due event: schedule_trading() calls
\* run_trading_cycle()
RunEvent ==
    /\ sch.thread = "waiting"
    /\ sch.queue # <<>>
    /\ sch.queue[1] = 0
    /\ sch' = [sch EXCEPT !.thread = "in_cycle", !.queue = Tail(@)]
    /\ UNCHANGED <<pos, volMetrics, pc, processed, faulted, tradeRaised, last, memo, cmb, sz,
                   rk, vs, va, st, sg, tb, mg, cn>>

\* run_trading_cycle() on the scheduler thread ends; an exception it lets
\* through leaves schedule_trading and scheduler.run, and the thread ends
CycleEnd ==
    /\ sch.thread = "in_cycle"
    /\ \E fault \in CycleFaults :
       \E outcome \in {run_trading_cycle(sch.robot_instance, fault)} :
          sch' = [sch EXCEPT !.thread = IF outcome = "raised" THEN "ended" ELSE "cycle_done",
                             !.cycles = CountCycle(@), !.outcome = outcome]
    /\ UNCHANGED <<pos, volMetrics, pc, processed, faulted, tradeRaised, last, memo, cmb, sz,
                   rk, vs, va, st, sg, tb, mg, cn>>

\* schedule_trading(): scheduler.enter(TRADING_INTERVAL_MINUTES * 60, 1,
\* schedule_trading) after the cycle
EnterNext ==
    /\ sch.thread = "cycle_done"
    /\ sch' = [sch EXCEPT !.thread = "waiting", !.queue = Append(@, TradingInterval)]
    /\ UNCHANGED <<pos, volMetrics, pc, processed, faulted, tradeRaised, last, memo, cmb, sz,
                   rk, vs, va, st, sg, tb, mg, cn>>

\* Ctrl+C: KeyboardInterrupt on the main thread, which the handlers for
\* Exception do not catch; main() ends and the daemon thread with it
KeyboardInterrupt ==
    /\ sch.main \in {"initial_cycle", "in_cycle", "start_scheduler", "sleeping"}
    /\ sch' = [sch EXCEPT !.main = "stopped",
                          !.thread = IF @ = "none" THEN "none" ELSE "ended"]
    /\ UNCHANGED <<pos, volMetrics, pc, processed, faulted, tradeRaised, last, memo, cmb, sz,
                   rk, vs, va, st, sg, tb, mg, cn>>

NextLive ==
    \/ SelectSymbols \/ CreateManager \/ CreateMetricsAnalyzer \/ ReturnRobot \/ Finalize
    \/ MainCycleBegin \/ MainCycleEnd \/ StartScheduler \/ KeyboardInterrupt
    \/ Tick \/ RunEvent \/ CycleEnd \/ EnterNext

\* main() from its first statement on
SpecLive == InitFlat /\ [][NextLive]_vars

\* the same with a scheduler thread that keeps running: the clock advances,
\* the thread is scheduled, and a cycle it has begun comes to its end
SpecLiveFair ==
    /\ SpecLive
    /\ WF_vars(Tick) /\ WF_vars(RunEvent) /\ WF_vars(CycleEnd) /\ WF_vars(EnterNext)

-----------------------------------------------------------------------------
(* MultiSymbolManager: data_sources and volatility_metrics as their key sets *)

\* the elements of a list
ElementsOf(seq) == {seq[i] : i \in 1..Len(seq)}

\* list.remove(x): the list without the first occurrence of x
RemoveFirst(seq, x) ==
    LET first == CHOOSE i \in 1..Len(seq) : seq[i] = x /\ \A j \in 1..(i - 1) : seq[j] # x
    IN  IF x \notin ElementsOf(seq) THEN seq
        ELSE SubSeq(seq, 1, first - 1) \o SubSeq(seq, first + 1, Len(seq))

\* the lists of distinct symbols a manager is constructed with
DistinctSymbolLists ==
    {c \in CandidateLists : \A i, j \in 1..Len(c) : c[i] = c[j] => i = j}

\* MultiSymbolManager.__init__ with _initialize_data_sources: the list is
\* kept as given; usable is the set of symbols for which symbol_select
\* succeeded and MT5Data was created
ManagerInit(symbols, usable) ==
    [called |-> TRUE, symbols |-> symbols, data_sources |-> ElementsOf(symbols) \cap usable,
     volatility_metrics |-> {}, op |-> "__init__", symbol |-> "", returned |-> TRUE]

\* update_volatility_metrics(analyzer): with_metrics is the set of symbols
\* for which the analyzer returned metrics
update_volatility_metrics(m, with_metrics) ==
    [m EXCEPT !.volatility_metrics = @ \cup (ElementsOf(m.symbols) \cap with_metrics),
              !.op = "update_volatility_metrics", !.symbol = "", !.returned = TRUE]

\* add_symbol(symbol): usable is whether symbol_select succeeds and MT5Data
\* is created
add_symbol(m, symbol, usable) ==
    IF symbol \in m.data_sources
    THEN [m EXCEPT !.op = "add_symbol", !.symbol = symbol, !.returned = TRUE]
    ELSE IF ~ usable
    THEN [m EXCEPT !.op = "add_symbol", !.symbol = symbol, !.returned = FALSE]
    ELSE [m EXCEPT !.data_sources = @ \cup {symbol}, !.symbols = Append(@, symbol),
                   !.op = "add_symbol", !.symbol = symbol, !.returned = TRUE]

\* remove_symbol(symbol)
remove_symbol(m, symbol) ==
    IF symbol \notin m.data_sources
    THEN [m EXCEPT !.op = "remove_symbol", !.symbol = symbol, !.returned = FALSE]
    ELSE [m EXCEPT !.data_sources = @ \ {symbol}, !.volatility_metrics = @ \ {symbol},
                   !.symbols = RemoveFirst(@, symbol),
                   !.op = "remove_symbol", !.symbol = symbol, !.returned = TRUE]

ManagerConstruct ==
    /\ ~ mg.called
    /\ \E symbols \in DistinctSymbolLists, usable \in SUBSET CandidateSymbols :
          /\ usable \subseteq ElementsOf(symbols)
          /\ mg' = ManagerInit(symbols, usable)
    /\ UNCHANGED <<pos, volMetrics, pc, processed, faulted, tradeRaised, last, memo, cmb, sz,
                   rk, vs, va, st, sg, tb, sch, cn>>

ManagerUpdateMetrics ==
    /\ mg.called
    /\ \E with_metrics \in SUBSET ElementsOf(mg.symbols) :
          mg' = update_volatility_metrics(mg, with_metrics)
    /\ UNCHANGED <<pos, volMetrics, pc, processed, faulted, tradeRaised, last, memo, cmb, sz,
                   rk, vs, va, st, sg, tb, sch, cn>>

ManagerAdd ==
    /\ mg.called
    /\ \E symbol \in CandidateSymbols, usable \in BOOLEAN :
          /\ symbol \in mg.data_sources => usable
          /\ mg' = add_symbol(mg, symbol, usable)
    /\ UNCHANGED <<pos, volMetrics, pc, processed, faulted, tradeRaised, last, memo, cmb, sz,
                   rk, vs, va, st, sg, tb, sch, cn>>

ManagerRemove ==
    /\ mg.called
    /\ \E symbol \in CandidateSymbols : mg' = remove_symbol(mg, symbol)
    /\ UNCHANGED <<pos, volMetrics, pc, processed, faulted, tradeRaised, last, memo, cmb, sz,
                   rk, vs, va, st, sg, tb, sch, cn>>

NextManager == ManagerConstruct \/ ManagerUpdateMetrics \/ ManagerAdd \/ ManagerRemove

\* a manager constructed on distinct symbols and any calls on it afterwards
SpecManager == InitFlat /\ [][NextManager]_vars

-----------------------------------------------------------------------------
(* TrendBreakoutStrategy.signal in detail; prices in points *)

\* TrendBreakoutStrategy.__init__: breakout_threshold = 0.001, in thousandths
breakout_threshold == 1

\* a window of the lookback_period bars before the current one
BarsBeforeCurrent(df, n) ==
    IF n = 0 THEN SubSeq(df, 1, Len(df) - 1)
    ELSE SubSeq(df, Len(df) - n, Len(df) - 1)

\* df.iloc[-self.lookback_period:], the trailing window; -0 is 0, so a
\* lookback of 0 takes the whole series
RecentData(df, n) ==
    IF n = 0 THEN df
    ELSE SubSeq(df, Len(df) - n + 1, Len(df))

\* recent_data['low'].min()
MinLow(bars) ==
    CHOOSE x \in {bars[i].low : i \in 1..Len(bars)} : \A i \in 1..Len(bars) : x <= bars[i].low

\* recent_data['high'].max()
MaxHigh(bars) ==
    CHOOSE x \in {bars[i].high : i \in 1..Len(bars)} : \A i \in 1..Len(bars) : x >= bars[i].high

\* identify_support_resistance(df): <<support_level, resistance_level>>
identify_support_resistance(df, lookback) ==
    IF Len(df) < lookback THEN <<0, 0>>
    ELSE <<MinLow(RecentData(df, lookback)), MaxHigh(RecentData(df, lookback))>>

\* "breakout_amount >= self.breakout_threshold", with breakout_amount =
\* amount / level if level > 0 else 0
BreakoutConfirmed(amount, level) ==
    IF level > 0 THEN amount * 1000 >= breakout_threshold * level
    ELSE 0 >= breakout_threshold

\* detect_breakout(df, support, resistance)
detect_breakout(df, support, resistance) ==
    LET current_high == df[Len(df)].high
        current_low == df[Len(df)].low
    IN  IF Len(df) < 2 THEN [is_breakout |-> FALSE, direction |-> ""]
        ELSE IF current_high > resistance /\ BreakoutConfirmed(current_high - resistance, resistance)
        THEN [is_breakout |-> TRUE, direction |-> "bullish"]
        ELSE IF current_low < support /\ BreakoutConfirmed(support - current_low, support)
        THEN [is_breakout |-> TRUE, direction |-> "bearish"]
        ELSE [is_breakout |-> FALSE, direction |-> ""]

\* calculate_trend_strength(df): 0.0 below 14 bars, else what talib.ADX
\* gives for the series (0.0 standing for NaN or an exception as well)
calculate_trend_strength(df, adx) == IF Len(df) < 14 THEN 0 ELSE adx

\* the sum of the closes of bars i..j
RECURSIVE SumCloses(_, _, _)
SumCloses(df, i, j) == IF i > j THEN 0 ELSE df[i].close + SumCloses(df, i + 1, j)

\* current_price > df['close'].rolling(window).mean().iloc[-1]; the mean is
\* NaN, and the comparison False, on fewer than window bars
PriceAboveSma(df, window) ==
    /\ Len(df) >= window
    /\ df[Len(df)].close * window > SumCloses(df, Len(df) - window + 1, Len(df))

\* sma_fast.iloc[-1] > sma_slow.iloc[-1] for windows 9 and 21 (sign = 1),
\* sma_fast.iloc[-1] < sma_slow.iloc[-1] (sign = -1); False when one is NaN
FastSlow(df, sign) ==
    /\ Len(df) >= 21
    /\ sign * SumCloses(df, Len(df) - 8, Len(df)) * 21
           > sign * SumCloses(df, Len(df) - 20, Len(df)) * 9

\* "0 < distance < 0.005" for distance = amount / level if level > 0 else 0
WithinHalfPercent(amount, level) ==
    /\ level > 0
    /\ amount > 0
    /\ amount * 1000 < 5 * level

TrendAnswer(result, rule, reached, sr, is_breakout) ==
    [result |-> result, rule |-> rule, reached |-> reached, support |-> sr[1],
     resistance |-> sr[2], is_breakout |-> is_breakout]

\* TrendBreakoutStrategy.signal(): the signal, the rule that gave it, and
\* the levels and breakout flag it worked with; adx and above_vwap are what
\* talib.ADX and the volume-weighted price give for the series
TrendBreakoutDecision(df, lookback, adx, above_vwap) ==
    LET sr == identify_support_resistance(df, lookback)
        support == sr[1]
        resistance == sr[2]
        b == detect_breakout(df, support, resistance)
        trend_strength == calculate_trend_strength(df, adx)
        current_price == df[Len(df)].close
        price_above_sma_fast == PriceAboveSma(df, 9)
        price_above_sma_slow == PriceAboveSma(df, 21)
    IN  IF ~ HasMinimumWindow(Len(df), lookback)
        THEN TrendAnswer("NONE", "window", FALSE, <<0, 0>>, FALSE)
        ELSE IF support = 0 \/ resistance = 0
        THEN TrendAnswer("NONE", "no_levels", FALSE, sr, FALSE)
        ELSE IF /\ b.is_breakout /\ b.direction = "bullish" /\ trend_strength > 25
                /\ price_above_sma_fast /\ price_above_sma_slow
        THEN TrendAnswer("BUY", "breakout", TRUE, sr, b.is_breakout)
        ELSE IF /\ b.is_breakout /\ b.direction = "bearish" /\ trend_strength > 25
                /\ ~ price_above_sma_fast /\ ~ price_above_sma_slow
        THEN TrendAnswer("SELL", "breakout", TRUE, sr, b.is_breakout)
        ELSE IF /\ trend_strength > 30
                /\ price_above_sma_fast /\ price_above_sma_slow /\ above_vwap
                /\ FastSlow(df, 1)
                /\ WithinHalfPercent(current_price - support, support)
        THEN TrendAnswer("BUY", "continuation", TRUE, sr, b.is_breakout)
        ELSE IF /\ trend_strength > 30
                /\ ~ price_above_sma_fast /\ ~ price_above_sma_slow /\ ~ above_vwap
                /\ FastSlow(df, -1)
                /\ WithinHalfPercent(resistance - current_price, current_price)
        THEN TrendAnswer("SELL", "continuation", TRUE, sr, b.is_breakout)
        ELSE TrendAnswer("NONE", "none", TRUE, sr, b.is_breakout)

\* bound: the longest bar series given to TrendBreakoutStrategy.signal()
MaxTrendBars == 21

\* the lengths of the series tried: around the minimum window, at the 14
\* bars the trend strength needs, and where both averages exist
TrendLengths == {5, 6, 7, 14, MaxTrendBars}

\* the lookback_period settings tried
TrendLookbacks == {0, 1, 2}

\* a quiet bar around 1000
QuietBar == Bar(1000, 1001, 999, 1000)

\* the last bars of a series: quiet, up, down, a spike up, a spike down and
\* a bar of zero prices
TrendBars ==
    {QuietBar, Bar(1000, 1004, 1000, 1003), Bar(1000, 1000, 996, 997),
     Bar(1000, 1030, 1000, 1025), Bar(1000, 1000, 970, 975), Bar(0, 0, 0, 0)}

\* the number of bars at the end of a series that vary
TrendTail == 3

\* the series of n bars: quiet bars followed by any last bars
TrendSeries(n) ==
    {[i \in 1..n |-> IF i <= n - TrendTail THEN QuietBar ELSE tail[i - (n - TrendTail)]] :
        tail \in [1..TrendTail -> TrendBars]}

\* what talib.ADX gives: no trend, a trend above 25, a trend above 30
TrendStrengths == {0, 26, 31}

\* one call of TrendBreakoutStrategy.signal()
TrendSignalCall ==
    /\ ~ tb.called
    /\ \E n \in TrendLengths, lookback \in TrendLookbacks :
       \E df \in TrendSeries(n) :
       \E adx \in (IF n < 14 THEN {0} ELSE TrendStrengths),
          above_vwap \in (IF n < 14 THEN {FALSE} ELSE BOOLEAN) :
       \E r \in {TrendBreakoutDecision(df, lookback, adx, above_vwap)} :
          tb' = [called |-> TRUE, bars |-> df, lookback |-> lookback, adx |-> adx,
                 above_vwap |-> above_vwap, reached |-> r.reached, support |-> r.support,
                 resistance |-> r.resistance, is_breakout |-> r.is_breakout,
                 result |-> r.result, rule |-> r.rule]
    /\ UNCHANGED <<pos, volMetrics, pc, processed, faulted, tradeRaised, last, memo, cmb, sz,
                   rk, vs, va, st, sg, mg, sch, cn>>

NextTrend == TrendSignalCall

\* calls of TrendBreakoutStrategy.signal() on series with every kind of last bars
SpecTrend == InitFlat /\ [][NextTrend]_vars

\* one call of SMCStrategy.identify_order_blocks
OrderBlocksCall ==
    /\ ~ st.called
    /\ \E n \in 0..MaxBlockBars, period \in Periods :
       \E df \in [1..n -> BlockBars] :
          st' = [called |-> TRUE, by |-> "identify_order_blocks", bars |-> df,
                 period |-> period, result |-> "NONE",
                 blocks |-> identify_order_blocks(df, period)]
    /\ UNCHANGED <<pos, volMetrics, pc, processed, faulted, tradeRaised, last, memo, cmb, sz,
                   rk, vs, va, sg, tb, mg, sch, cn>>

NextOrderBlocks == OrderBlocksCall

\* calls of identify_order_blocks on every short candle series
SpecOrderBlocks == InitFlat /\ [][NextOrderBlocks]_vars

-----------------------------------------------------------------------------
(* Reading a step's record *)

\* the calls of a step with the given operation and side
CallsOf(step, op, side) ==
    {i \in 1..Len(step.calls) : step.calls[i].op = op /\ step.calls[i].side = side}

NumCalls(step, op, side) == Cardinality(CallsOf(step, op, side))

NumOpens(step) == NumCalls(step, "open_position", "BUY") + NumCalls(step, "open_position", "SELL")

\* the step asked for the open positions of that side and was told n
Reported(step, side, n) ==
    \E i \in CallsOf(step, "get_opened_positions", side) :
        step.calls[i].res = "count" /\ step.calls[i].n = n

ReportedSome(step, side) ==
    \E i \in CallsOf(step, "get_opened_positions", side) :
        step.calls[i].res = "count" /\ step.calls[i].n > 0

\* the risk check of the step allowed the trade
RiskAllowed(step) ==
    \E i \in 1..Len(step.calls) :
        step.calls[i].op = "check_risk_limits" /\ step.calls[i].res = "allowed"

RiskRejected(step) ==
    \E i \in 1..Len(step.calls) :
        step.calls[i].op = "check_risk_limits" /\ step.calls[i].res = "rejected"

\* the open request of the step came back with res
OpenReturned(step, side, res) ==
    \E i \in CallsOf(step, "open_position", side) : step.calls[i].res = res

\* the positions of a side the broker held for the step's symbol when it began
Held(step, side) == IF side = "BUY" THEN step.inp.buys ELSE step.inp.sells

-----------------------------------------------------------------------------
(* C1..C4: what one trade_symbol step sends *)

\* the case of C1: signal BUY, no open BUY reported, risk check allows, and
\* no call of the step raises
C1_Case ==
    /\ last.inp.signal = "BUY"
    /\ last.inp.fault = "none"
    /\ Reported(last, "BUY", 0)
    /\ RiskAllowed(last)

\* C1 as stated: in that case the step invokes exactly one open-BUY request
\* and, if the broker holds an open SELL position for the symbol, exactly one
\* close-SELL request, whatever the open request returns.
C1_AsStated ==
    C1_Case =>
        /\ NumCalls(last, "open_position", "BUY") = 1
        /\ Held(last, "SELL") > 0 => NumCalls(last, "close_positions", "SELL") = 1

\* C1 as amended: in that case the step invokes exactly one open-BUY request
\* and no open-SELL request; when the open request returns a result (success
\* or a non-success code) the step asks the broker once for the open SELL
\* positions, and exactly one close-SELL request follows if the broker
\* reports one and none otherwise; when it returns no result the step ends
\* without asking and without a close request.
C1_OpenThenCloseUnlessNoResult ==
    C1_Case =>
        /\ NumCalls(last, "open_position", "BUY") = 1
        /\ NumCalls(last, "open_position", "SELL") = 0
        /\ NumCalls(last, "close_positions", "BUY") = 0
        /\ (OpenReturned(last, "BUY", "DONE") \/ OpenReturned(last, "BUY", "FAILED"))
              => /\ NumCalls(last, "get_opened_positions", "SELL") = 1
                 /\ NumCalls(last, "close_positions", "SELL")
                       = (IF ReportedSome(last, "SELL") THEN 1 ELSE 0)
        /\ OpenReturned(last, "BUY", "NO_RESULT")
              => /\ NumCalls(last, "close_positions", "SELL") = 0
                 /\ NumCalls(last, "get_opened_positions", "SELL") = 0

\* a step of C1's case whose order came back with a non-success code and
\* which then closed the open SELL position
C1_Witness ==
    /\ C1_Case
    /\ OpenReturned(last, "BUY", "FAILED")
    /\ Held(last, "SELL") > 0
    /\ NumCalls(last, "close_positions", "SELL") = 1

\* C2: when the signal is BUY (SELL) and the broker reports at least one open
\* BUY (SELL) position for the symbol, the step sends no open request, and
\* it sends one close request for the opposite side exactly when the broker
\* reports an open position of the opposite side.
C2_NoOpenWhenAlreadyOpen ==
    \A side \in Sides :
        (last.inp.signal = side /\ ReportedSome(last, side)) =>
            /\ NumOpens(last) = 0
            /\ ReportedSome(last, Opposite(side))
                  => NumCalls(last, "close_positions", Opposite(side)) = 1
            /\ Reported(last, Opposite(side), 0)
                  => NumCalls(last, "close_positions", Opposite(side)) = 0

\* a BUY step that found a BUY open, opened nothing and closed the SELL side
C2_Witness ==
    /\ last.inp.signal = "BUY"
    /\ ReportedSome(last, "BUY")
    /\ ReportedSome(last, "SELL")
    /\ NumOpens(last) = 0
    /\ NumCalls(last, "close_positions", "SELL") = 1

\* C3: every open_position request of a step directly follows a
\* check_risk_limits call of that step, for the same symbol and the same lot
\* size, that returned allowed; and when the check rejects, the step sends no
\* order and ends by returning, with nothing raised to the caller of trade().
C3_OpenOnlyAfterRiskAllowed ==
    /\ \A i \in 1..Len(last.calls) :
          last.calls[i].op = "open_position" =>
              /\ i > 1
              /\ last.calls[i - 1].op = "check_risk_limits"
              /\ last.calls[i - 1].res = "allowed"
              /\ last.calls[i - 1].symbol = last.calls[i].symbol
              /\ last.calls[i - 1].lots = last.calls[i].lots
              /\ last.calls[i].symbol = last.inp.symbol
    /\ RiskRejected(last) =>
          /\ NumOpens(last) = 0
          /\ last.ending = "rejected"
          /\ ~ tradeRaised

\* a step that sent an order after its risk check allowed it
C3_Witness ==
    /\ NumOpens(last) = 1
    /\ RiskAllowed(last)

\* a step whose risk check rejected and which sent nothing
C3_WitnessRejected ==
    /\ RiskRejected(last)
    /\ last.ending = "rejected"

\* the step handled its signal: it ran to a return, no call raised
C4_Handled(side) ==
    /\ last.inp.signal = side
    /\ last.ending \in {"done", "rejected", "no_result"}

\* C4 as stated: after a step has handled a BUY (SELL) signal, an open SELL
\* (BUY) position of the symbol has been asked to close in that step, in
\* every case of the handling.
C4_AsStated ==
    \A side \in Sides :
        (C4_Handled(side) /\ Held(last, Opposite(side)) > 0)
            => NumCalls(last, "close_positions", Opposite(side)) >= 1

\* C4 as amended: after a step has handled a BUY (SELL) signal by opening a
\* new position, by finding one already open, or by getting a non-success
\* code for its order, an open SELL (BUY) position of the symbol has been
\* asked to close, once, in that step; when the risk check rejected the new
\* position or the order returned no result, no close request was made.
C4_CloseUnlessRejectedOrNoResult ==
    \A side \in Sides :
        /\ (C4_Handled(side) /\ last.ending = "done" /\ Held(last, Opposite(side)) > 0)
              => NumCalls(last, "close_positions", Opposite(side)) = 1
        /\ (C4_Handled(side) /\ last.ending \in {"rejected", "no_result"})
              => NumCalls(last, "close_positions", Opposite(side)) = 0

\* a SELL step that opened a new SELL position and closed the open BUY one
C4_Witness ==
    /\ C4_Handled("SELL")
    /\ OpenReturned(last, "SELL", "DONE")
    /\ Held(last, "BUY") > 0
    /\ NumCalls(last, "close_positions", "BUY") = 1

-----------------------------------------------------------------------------
(* C6: fault isolation per symbol *)

\* C6: trade() never ends by raising, and every iteration of its loop, also
\* one whose symbol raised, is followed by the next symbol: the symbols
\* processed so far are always the first pc - 1 keys, and all of them once
\* the loop is over.
C6_CycleSurvivesSymbolFault ==
    /\ ~ tradeRaised
    /\ pc >= 1 => processed = SubSeq(StrategyKeys, 1, pc - 1)
    /\ faulted \subseteq {processed[i] : i \in 1..Len(processed)}

\* a cycle whose first symbol raised and which processed every symbol
C6_Witness ==
    /\ pc = NSymbols + 1
    /\ StrategyKeys[1] \in faulted
    /\ processed = StrategyKeys

-----------------------------------------------------------------------------
(* C5: a step depends on what it is given, not on earlier cycles *)

\* the open and close requests of a step, in order
Requests(step) ==
    LET sent == SelectSeq(step.calls,
                          LAMBDA c : c.op \in {"open_position", "close_positions"})
    IN  [i \in 1..Len(sent) |->
            [op |-> sent[i].op, symbol |-> sent[i].symbol, side |-> sent[i].side,
             lots |-> sent[i].lots, id |-> sent[i].id]]

-----------------------------------------------------------------------------
(* C7..C9: the vote of CombinedStrategy *)

\* the outcomes of the constituents that did not raise
NonSkipped(outcomes) == SelectSeq(outcomes, LAMBDA o : o # "RAISE")

\* ceil((n + 1) / 2)
CeilHalfOfSuccessor(n) == (n + 2) \div 2

\* C7: in majority mode, with n >= 1 non-skipped results, the result is BUY
\* iff buy_count >= ceil((n+1)/2), otherwise SELL iff sell_count >=
\* ceil((n+1)/2), otherwise NONE.
C7_MajorityByCeiling ==
    LET signals == NonSkipped(cmb.outcomes)
        n == Len(signals)
    IN  (cmb.called /\ ~ cmb.require_all /\ n >= 1) =>
            cmb.result = (IF CountOf(signals, "BUY") >= CeilHalfOfSuccessor(n) THEN "BUY"
                          ELSE IF CountOf(signals, "SELL") >= CeilHalfOfSuccessor(n) THEN "SELL"
                          ELSE "NONE")

\* C8: with require_all the result is BUY only if every non-skipped
\* constituent returned BUY, SELL only if every one returned SELL, and NONE
\* in every other case.
C8_RequireAllIsUnanimity ==
    LET signals == NonSkipped(cmb.outcomes)
        n == Len(signals)
    IN  (cmb.called /\ cmb.require_all) =>
            /\ cmb.result = "BUY" <=> (n >= 1 /\ \A i \in 1..n : signals[i] = "BUY")
            /\ cmb.result = "SELL" <=> (n >= 1 /\ \A i \in 1..n : signals[i] = "SELL")
            /\ cmb.result \in {"BUY", "SELL", "NONE"}

\* require_all with {BUY, BUY, SELL} gave NONE
C8_Witness ==
    /\ cmb.called
    /\ cmb.require_all
    /\ cmb.outcomes = <<"BUY", "BUY", "SELL">>
    /\ cmb.result = "NONE"

\* C9: a constituent that raises is skipped without aborting the others:
\* every configured constituent is queried, the result is the vote over the
\* non-skipped results only, and it is NONE when there is no usable result.
C9_RaisingConstituentSkipped ==
    cmb.called =>
        /\ cmb.queried = Len(cmb.outcomes)
        /\ cmb.signals = NonSkipped(cmb.outcomes)
        /\ Len(NonSkipped(cmb.outcomes)) = 0 => cmb.result = "NONE"
        /\ Len(NonSkipped(cmb.outcomes)) > 0
              => cmb.result = Vote(NonSkipped(cmb.outcomes), cmb.require_all)

\* the first constituent raised, the other two were queried and voted BUY
C9_Witness ==
    /\ cmb.called
    /\ cmb.outcomes = <<"RAISE", "BUY", "BUY">>
    /\ cmb.queried = 3
    /\ cmb.result = "BUY"

-----------------------------------------------------------------------------
(* C10: the lot size of calculate_position_size *)

\* the case of C10: metadata and tick are available and the stop-loss price
\* difference is non-zero
C10_Case ==
    /\ sz.called
    /\ sz.market = "ok"
    /\ PriceDiff(sz.info, sz.stop_loss_pips) # 0

IsMultipleOf(x, step) == \E k \in 0..Abs(x) : x = k * step

\* C10 as stated: in that case the lot size is an integer multiple of
\* volume_step and lies in [volume_min, volume_max], for every balance, risk
\* amount, multiplier and combination of volume_min, volume_max, volume_step.
C10_AsStated ==
    C10_Case =>
        /\ IsMultipleOf(sz.result, sz.info.volume_step)
        /\ sz.info.volume_min <= sz.result
        /\ sz.result <= sz.info.volume_max

\* C10 as amended: in that case, when also the tick value is non-zero, the
\* lot size lies in [volume_min, volume_max] and is an integer multiple of
\* volume_step or one of the two limits it was clamped to (so a multiple of
\* volume_step whenever both limits are); when the tick value is zero the
\* division fails and the lot size is 0.
C10_InRangeAndOnStepOrLimit ==
    /\ (C10_Case /\ sz.info.trade_tick_value # 0) =>
          /\ sz.info.volume_min <= sz.result
          /\ sz.result <= sz.info.volume_max
          /\ \/ IsMultipleOf(sz.result, sz.info.volume_step)
             \/ sz.result = sz.info.volume_min
             \/ sz.result = sz.info.volume_max
          /\ (/\ IsMultipleOf(sz.info.volume_min, sz.info.volume_step)
              /\ IsMultipleOf(sz.info.volume_max, sz.info.volume_step))
                => IsMultipleOf(sz.result, sz.info.volume_step)
    /\ (C10_Case /\ sz.info.trade_tick_value = 0) => sz.result = 0

\* a lot size strictly between the limits, on a step of 0.1 lot
C10_Witness ==
    /\ C10_Case
    /\ sz.info.volume_step = 10
    /\ sz.info.volume_min < sz.result
    /\ sz.result < sz.info.volume_max
    /\ IsMultipleOf(sz.result, 10)

-----------------------------------------------------------------------------
(* C11: calculate_position_size when market data is missing or it fails *)

\* C11: calculate_position_size returns exactly 0 and does not raise whenever
\* the symbol cannot be selected, its info or tick is unavailable, the
\* stop-loss price difference is zero, or a computation inside it fails (a
\* division by a zero tick value).
C11_ZeroWithoutRaising ==
    sz.called =>
        /\ ~ sz.raised
        /\ (\/ sz.market # "ok"
            \/ PriceDiff(sz.info, sz.stop_loss_pips) = 0
            \/ sz.info.trade_tick_value = 0) => sz.result = 0

\* a call with all market data there whose division by the tick value fails
C11_Witness ==
    /\ sz.called
    /\ sz.market = "ok"
    /\ PriceDiff(sz.info, sz.stop_loss_pips) # 0
    /\ sz.info.trade_tick_value = 0
    /\ sz.result = 0
    /\ ~ sz.raised

-----------------------------------------------------------------------------
(* C12, C13: check_risk_limits *)

\* C12: check_risk_limits returns allowed = False whenever the balance is 0,
\* a failed balance query counting as a balance of 0, for every symbol, lot
\* size and stop-loss distance.
C12_ZeroBalanceRejected ==
    rk.called =>
        /\ rk.account.kind # "account" => rk.balance = 0
        /\ rk.balance = 0 => (~ rk.answer.allowed /\ rk.answer.reason = "balance_zero")

\* a small trade on an account whose balance query raises
C12_Witness ==
    /\ rk.called
    /\ rk.account.kind = "raise"
    /\ rk.market = "ok"
    /\ rk.lots = 10
    /\ rk.profit = 0
    /\ ~ rk.answer.allowed

\* the case of C13: a positive balance, symbol info and tick available
C13_Case ==
    /\ rk.called
    /\ rk.balance > 0
    /\ rk.market = "ok"

\* |price_difference * tick_value * lots|, lots in hundredths: the position
\* risk is this number over 100 * tick_size
C13_RiskTimesTicks ==
    Abs(PriceDiff(rk.info, rk.stop_loss_pips) * rk.info.trade_tick_value * rk.lots)

\* position_risk_percent <= risk_per_symbol * 100
C13_WithinSymbolLimit ==
    C13_RiskTimesTicks * 100
        <= RiskPerSymbolPct * (100 * rk.info.trade_tick_size) * rk.balance

\* |sum of floating P/L| / balance * 100 + position_risk_percent <= max_total_risk * 100
C13_WithinTotalLimit ==
    Abs(rk.profit) * 100 * (100 * rk.info.trade_tick_size) + C13_RiskTimesTicks * 100
        <= MaxTotalRiskPct * (100 * rk.info.trade_tick_size) * rk.balance

\* C13: with a positive balance and symbol info and tick available,
\* check_risk_limits allows the trade iff the position's risk percentage is at
\* most the per-symbol limit and that percentage plus the floating P/L
\* percentage is at most the total limit; the per-symbol limit is tested
\* first and a value equal to a limit is allowed.
C13_AllowedIffWithinBothLimits ==
    C13_Case =>
        /\ rk.answer.allowed <=> (C13_WithinSymbolLimit /\ C13_WithinTotalLimit)
        /\ ~ C13_WithinSymbolLimit => rk.answer.reason = "per_symbol"
        /\ (C13_WithinSymbolLimit /\ ~ C13_WithinTotalLimit) => rk.answer.reason = "total"

\* a trade whose risk is exactly the per-symbol limit and whose total is
\* exactly the total limit
C13_Witness ==
    /\ C13_Case
    /\ C13_RiskTimesTicks * 100
        = RiskPerSymbolPct * (100 * rk.info.trade_tick_size) * rk.balance
    /\ Abs(rk.profit) * 100 * (100 * rk.info.trade_tick_size) + C13_RiskTimesTicks * 100
        = MaxTotalRiskPct * (100 * rk.info.trade_tick_size) * rk.balance
    /\ rk.answer.allowed

-----------------------------------------------------------------------------
(* C14: volatility and position size *)

\* C14: for two ATR percentages a1 <= a2 of the same symbol and all other
\* inputs equal, the lot size under get_volatility_multiplier(a2) is at most
\* the lot size under get_volatility_multiplier(a1).
C14_HigherVolatilitySmallerSize ==
    vs.called => vs.size_high <= vs.size_low

-----------------------------------------------------------------------------
(* C15..C18: the ranking and selection of symbols *)

\* market data from which calculate_volatility_metrics can compute metrics
Usable(d) == d.kind = "rates" /\ d.bars >= atr_period + lookback_period

\* C15: the ranking has no entry for a symbol that is unavailable, has no
\* bars or has fewer than atr_period + lookback_period bars, and every
\* candidate with enough data is ranked whatever happened to the others.
C15_UnusableLeftOutOthersRanked ==
    va.called =>
        /\ \A j \in 1..Len(va.ranked) : Usable(va.mdata[va.ranked[j].symbol])
        /\ \A i \in 1..Len(va.candidates) :
              Usable(va.mdata[va.candidates[i]]) =>
                  \E j \in 1..Len(va.ranked) : va.ranked[j].symbol = va.candidates[i]
        /\ Len(va.ranked)
             = Cardinality({i \in 1..Len(va.candidates) : Usable(va.mdata[va.candidates[i]])})

\* three candidates: one whose analysis raises, one a bar short, one ranked
C15_Witness ==
    /\ va.called
    /\ va.candidates = <<"EURUSD", "XAUUSD", "BTCUSD">>
    /\ va.mdata["EURUSD"].kind = "raise"
    /\ va.mdata["XAUUSD"] = MarketData("rates", atr_period + lookback_period - 1, 9)
    /\ Usable(va.mdata["BTCUSD"])
    /\ Len(va.ranked) = 1
    /\ va.ranked[1].symbol = "BTCUSD"

\* the selection is a prefix of the ranking and all its scores reach min_score
C16_PrefixAboveThreshold ==
    /\ Len(va.selected) <= Len(va.ranked)
    /\ \A j \in 1..Len(va.selected) :
          /\ j <= Len(va.ranked)
          /\ va.selected[j] = va.ranked[j].symbol
          /\ va.ranked[j].score >= va.threshold

\* the ranking is in descending order of score, and the entries of one score
\* are the candidates with that score in their input order
C16_RankingDescending ==
    /\ \A j \in 1..(Len(va.ranked) - 1) : va.ranked[j].score >= va.ranked[j + 1].score
    /\ \A s \in {d.score : d \in MarketDataAnswers} :
          SymbolsOf(SelectSeq(va.ranked, LAMBDA r : r.score = s))
            = SelectSeq(va.candidates,
                        LAMBDA c : Usable(va.mdata[c]) /\ va.mdata[c].score = s)

\* C16 as stated: the selection is a prefix of the descending-score ranking
\* (ties in input order), has at most max_n entries and only symbols whose
\* score is at least min_score, for every candidate list, max_n and min_score.
C16_AsStated ==
    (va.called /\ va.by = "select_top_volatile_symbols") =>
        /\ C16_RankingDescending
        /\ C16_PrefixAboveThreshold
        /\ Len(va.selected) <= va.max_symbols

\* C16 as amended: the selection is a prefix of the descending-score ranking
\* (ties in input order) with only scores of at least min_score for every
\* max_n; it has at most max_n entries when max_n >= 0, and for a negative
\* max_n it is the qualifying part of the ranking without its last -max_n
\* entries.
C16_PrefixWithinNonNegativeMax ==
    (va.called /\ va.by = "select_top_volatile_symbols") =>
        /\ C16_RankingDescending
        /\ C16_PrefixAboveThreshold
        /\ va.max_symbols >= 0 => Len(va.selected) <= va.max_symbols
        /\ va.max_symbols < 0 =>
              Len(va.selected)
                = Max2(0, Cardinality({j \in 1..Len(va.ranked) :
                                         va.ranked[j].score >= va.threshold}) + va.max_symbols)

\* three ranked candidates, two of them tied, of which max_n = 2 cuts one
\* off and the threshold would have cut none
C16_Witness ==
    /\ va.called
    /\ va.by = "select_top_volatile_symbols"
    /\ va.max_symbols = 2
    /\ va.threshold = 5
    /\ va.candidates = <<"EURUSD", "XAUUSD", "BTCUSD">>
    /\ Len(va.ranked) = 3
    /\ va.ranked[1].score = 9
    /\ va.ranked[2].score = 5
    /\ va.ranked[3].score = 5
    /\ va.selected = <<"BTCUSD", "EURUSD">>

\* C17: the selection never contains the same symbol twice, also when a
\* symbol occurs more than once among the candidates.
C17_NoSymbolSelectedTwice ==
    (va.called /\ va.by = "select_top_volatile_symbols") =>
        \A i, j \in 1..Len(va.selected) : va.selected[i] = va.selected[j] => i = j

\* C18: when the selection selects no symbol (the analysis raises, no
\* candidate has enough data, or none reaches the minimum score), startup goes
\* on with the original candidates in their order, truncated to max_n.
C18_FallsBackToCandidates ==
    (/\ va.called
     /\ va.by = "initialize_trading_system"
     /\ Len(va.candidates) > 0
     /\ va.max_symbols >= 1
     /\ \/ va.raises
        \/ select_top_volatile_symbols(va.candidates, va.max_symbols, va.threshold,
                                       va.mdata) = <<>>)
        => /\ va.outcome = "initialized"
           /\ va.selected = SubSeq(va.candidates, 1, Min2(va.max_symbols, Len(va.candidates)))

-----------------------------------------------------------------------------
(* C19, C20: SMCStrategy and TrendBreakoutStrategy *)

\* C19: SMCStrategy.signal and TrendBreakoutStrategy.signal return NONE for
\* every bar series shorter than the period + 5 bars, the empty series
\* included, for every positive period.
C19_NoneBelowMinimumWindow ==
    (st.called /\ st.by \in {"smc", "trend_breakout"} /\ Len(st.bars) < st.period + 5)
        => st.result = "NONE"

\* an SMC call on a series one bar short of its window
C19_Witness ==
    /\ st.called
    /\ st.by = "smc"
    /\ st.period = 2
    /\ Len(st.bars) = st.period + 4
    /\ st.result = "NONE"

\* the block condition as described: bar i = k - 1 is at or behind
\* order_block_periods, has a following bar, closes on the given side of its
\* open with a body above 60% of its positive range, and the following bar's
\* range is below 50% of its range
C20_Described(k, bullish) ==
    LET bar == st.bars[k]
    IN  /\ k - 1 >= st.period
        /\ k + 1 <= Len(st.bars)
        /\ IF bullish THEN bar.close > bar.open ELSE bar.close < bar.open
        /\ bar.high - bar.low > 0
        /\ 10 * Abs(bar.close - bar.open) > 6 * (bar.high - bar.low)
        /\ 2 * (st.bars[k + 1].high - st.bars[k + 1].low) < bar.high - bar.low

\* C20: identify_order_blocks flags a bar as a bullish (bearish) block iff
\* the described condition holds; a candle of body 81 in a range of 100 is
\* flagged when followed by a candle of range 40 and not when followed by one
\* of range 90, and the last bar is never flagged.
C20_OrderBlocksAsDescribed ==
    (st.called /\ st.by = "identify_order_blocks") =>
        /\ Len(st.blocks.bullish) = Len(st.bars)
        /\ Len(st.blocks.bearish) = Len(st.bars)
        /\ \A k \in 1..Len(st.bars) :
              /\ st.blocks.bullish[k] <=> C20_Described(k, TRUE)
              /\ st.blocks.bearish[k] <=> C20_Described(k, FALSE)
        /\ \A k \in 1..(Len(st.bars) - 1) :
              /\ (/\ k - 1 >= st.period
                  /\ st.bars[k] = Bar(10, 100, 0, 91)
                  /\ st.bars[k + 1].high - st.bars[k + 1].low = 40) => st.blocks.bullish[k]
              /\ (/\ st.bars[k] = Bar(10, 100, 0, 91)
                  /\ st.bars[k + 1].high - st.bars[k + 1].low = 90) => ~ st.blocks.bullish[k]
        /\ Len(st.bars) > 0 =>
              /\ ~ st.blocks.bullish[Len(st.bars)]
              /\ ~ st.blocks.bearish[Len(st.bars)]

\* the candle of body 81 in a range of 100, followed by a candle of range 40,
\* flagged as a bullish block, in a series that ends with a strong candle
C20_Witness ==
    /\ st.called
    /\ st.by = "identify_order_blocks"
    /\ st.period = 1
    /\ Len(st.bars) = 4
    /\ st.bars[2] = Bar(10, 100, 0, 91)
    /\ st.bars[3] = Bar(10, 40, 0, 30)
    /\ st.bars[4] = Bar(91, 100, 0, 10)
    /\ st.blocks.bullish[2]
    /\ ~ st.blocks.bearish[4]

-----------------------------------------------------------------------------
(* C21: the robot never asks for a position of 0.0 lots *)

\* the size RiskManager.calculate_position_size answered in the last step
C21_ManagerSize ==
    calculate_position_size(SymbolInfo(last.inp.symbol), last.inp.market, stop_loss_pips,
                            NoRiskAmount, last.inp.balance, RobotMultiplier(last.inp.metrics))

\* C21: no open_position request carries 0.0 lots; when the risk manager's
\* size is 0.0 the size the step checks is default_lot_size, otherwise the
\* manager's size; and every open request directly follows a risk check of
\* that same size which allowed it.
C21_NeverOpensZeroLots ==
    \A i \in 1..Len(last.calls) :
        /\ last.calls[i].op = "check_risk_limits" =>
              last.calls[i].lots = (IF C21_ManagerSize = 0 THEN default_lot_size
                                                          ELSE C21_ManagerSize)
        /\ last.calls[i].op = "open_position" =>
              /\ last.calls[i].lots # 0
              /\ i > 1
              /\ last.calls[i - 1].op = "check_risk_limits"
              /\ last.calls[i - 1].res = "allowed"
              /\ last.calls[i - 1].lots = last.calls[i].lots

\* a step whose risk manager answered 0.0 and which opened default_lot_size
\* after the risk check allowed that size
C21_Witness ==
    /\ C21_ManagerSize = 0
    /\ \E i \in 2..Len(last.calls) :
          /\ last.calls[i].op = "open_position"
          /\ last.calls[i].lots = default_lot_size
          /\ last.calls[i - 1].op = "check_risk_limits"
          /\ last.calls[i - 1].lots = default_lot_size
          /\ last.calls[i - 1].res = "allowed"

-----------------------------------------------------------------------------
(* C23: the identifier that scopes a close *)

\* C23: every close_positions request of a step is scoped by the identifier
\* the robot attaches to the orders it opens, self.magic_number, and every
\* open_position request carries that identifier.
C23_CloseScopedByMagicNumber ==
    \A i \in 1..Len(last.calls) :
        /\ last.calls[i].op = "open_position" => last.calls[i].id = "magic_number"
        /\ last.calls[i].op = "close_positions" => last.calls[i].id = "magic_number"

-----------------------------------------------------------------------------
(* C30: the order of the risk check, the open and the close within a step *)

\* the step sent both an open request and a close request
C30_OpensAndCloses ==
    /\ NumOpens(last) > 0
    /\ \E i \in 1..Len(last.calls) : last.calls[i].op = "close_positions"

\* C30: in a step that sends an open and a close request, the risk check
\* and the open request both come before the close request, the close is
\* for the opposite side of the open, and the verdict of the risk check is
\* the one check_risk_limits gives on the floating profit of all positions
\* open when the step began, the opposite ones included.
C30_OpenBeforeClose ==
    C30_OpensAndCloses =>
        \A i, j \in 1..Len(last.calls) :
            (last.calls[i].op = "open_position" /\ last.calls[j].op = "close_positions") =>
                /\ i < j
                /\ last.calls[j].side = Opposite(last.calls[i].side)
                /\ Held(last, last.calls[j].side) > 0
                /\ last.calls[i - 1].op = "check_risk_limits"
                /\ (last.calls[i - 1].res = "allowed") =
                      check_risk_before_trade(last.inp.symbol, last.inp.market,
                                              last.calls[i - 1].lots, last.inp.balance,
                                              last.inp.profit).allowed

\* a BUY step that opened and then closed the SELL side, with the open
\* SELL position's floating loss counted by its risk check
C30_Witness ==
    /\ C30_OpensAndCloses
    /\ last.inp.signal = "BUY"
    /\ Held(last, "SELL") > 0
    /\ last.inp.profit < 0
    /\ OpenReturned(last, "BUY", "DONE")

-----------------------------------------------------------------------------
(* C26: check_risk_limits on an account in debit *)

\* C26: check_risk_limits never answers allowed = True when the balance is
\* not strictly positive, negative balances included.
C26_NonPositiveBalanceRejected ==
    (rk.called /\ rk.balance <= 0) => ~ rk.answer.allowed

-----------------------------------------------------------------------------
(* C27: the size the risk manager computes against its own per-symbol limit *)

\* C27: a non-zero lot size computed for the default risk amount, under any
\* multiplier get_volatility_multiplier produces, is not rejected by
\* check_risk_limits for exceeding the per-symbol risk limit.
C27_SizedPositionWithinSymbolLimit ==
    (sg.called /\ sg.size # 0) => sg.answer.reason # "per_symbol"

-----------------------------------------------------------------------------
(* C25: the levels TrendBreakoutStrategy.signal hands to detect_breakout *)

C25_WitnessSell ==
    /\ tb.called
    /\ tb.reached
    /\ tb.result = "SELL"

-----------------------------------------------------------------------------
(* C28: the lists of MultiSymbolManager *)

\* C28: for a manager constructed with distinct symbols, after any calls of
\* add_symbol and remove_symbol the symbols list holds no symbol twice,
\* every key of data_sources occurs in it, and right after a successful
\* remove_symbol(s) the symbol s is in none of symbols, data_sources and
\* volatility_metrics.
C28_ManagerListsConsistent ==
    mg.called =>
        /\ \A i, j \in 1..Len(mg.symbols) : mg.symbols[i] = mg.symbols[j] => i = j
        /\ mg.data_sources \subseteq ElementsOf(mg.symbols)
        /\ (mg.op = "remove_symbol" /\ mg.returned) =>
              mg.symbol \notin (ElementsOf(mg.symbols) \cup mg.data_sources
                                  \cup mg.volatility_metrics)

-----------------------------------------------------------------------------
(* C22, C24, C29: main_live *)

\* C22: the initial cycle on the main thread and a cycle on the scheduler
\* thread are never in progress together; the main thread runs its cycle
\* before the scheduler thread exists; and while a scheduled cycle runs no
\* further event is queued, so the next cycle waits for the end of this one.
C22_CyclesNeverOverlap ==
    /\ ~ (sch.main = "in_cycle" /\ sch.thread = "in_cycle")
    /\ sch.main = "in_cycle" => sch.thread = "none"
    /\ sch.thread = "in_cycle" => sch.queue = <<>>
    /\ Len(sch.queue) <= 1

\* a scheduled cycle in progress after the initial cycle and an earlier
\* scheduled cycle, the main thread asleep
C22_Witness ==
    /\ sch.thread = "in_cycle"
    /\ sch.main = "sleeping"
    /\ sch.cycles >= 2

\* C24: once the scheduler has been started, no exception of a cycle gets
\* out of run_trading_cycle, the scheduler thread ends only when the
\* process is stopped with Ctrl+C, after every cycle the next event is
\* entered into the queue, and a cycle is eventually in progress again
\* (or the process has been stopped).
C24_CyclesKeepBeingScheduled ==
    /\ [](sch.outcome # "raised")
    /\ [](sch.thread = "ended" => sch.main = "stopped")
    /\ (sch.thread = "cycle_done") ~> (sch.queue # <<>> \/ sch.main = "stopped")
    /\ (sch.thread \in {"waiting", "cycle_done"})
           ~> (sch.thread = "in_cycle" \/ sch.main = "stopped")

\* a scheduled cycle in progress after a scheduled cycle that failed
C24_Witness ==
    /\ sch.thread = "in_cycle"
    /\ sch.outcome = "failed"
    /\ sch.cycles >= 2

\* C29: whenever a trading cycle is in progress, on the main thread or on
\* the scheduler thread, the connection is open: no __del__ of an object
\* created during startup has shut it down.
C29_ConnectionOpenDuringCycles ==
    (sch.main = "in_cycle" \/ sch.thread = "in_cycle") => cn.connected

=============================================================================
